---- MODULE Spec2Model ----
(***************************************************************************)
(* Model of the Markdown table / inline-format parser of md2docx_hotpaste  *)
(* (domains/spreadsheet/parser.py and domains/spreadsheet/formatting.py).  *)
(*                                                                         *)
(* A Python str is modelled as a sequence of one-character strings, so     *)
(* that indexing, slicing, find and strip are computed character by        *)
(* character as the interpreter computes them.  Python indices are         *)
(* 0-based: position i of a str s is s[i + 1] here (operator At).          *)
(***************************************************************************)
EXTENDS Naturals, Integers, Sequences, FiniteSets

VARIABLES split, table, cell, gate

vars == <<split, table, cell, gate>>

----------------------------------------------------------------------------
(* Bounds of the model.                                                    *)

\* longest line handed to the cell splitter
MaxLineLen == 5
\* most lines of a clipboard text handed to the table parser
MaxLines == 4
\* most pieces (characters or markup tokens) of a cell text
MaxPieces == 3
\* readings of the clock in one second: the clock counts ticks
TicksPerSec == 2
\* latest reading of the clock, in ticks
MaxTime == 6
\* most presses of the hotkey
MaxTriggers == 3
\* the longest text put under the header line when separator rows are probed
MaxTailLen == 5

----------------------------------------------------------------------------
(* Python str primitives.                                                  *)

Min(a, b) == IF a < b THEN a ELSE b

Max(a, b) == IF a < b THEN b ELSE a

\* s[i] for 0 <= i < len(s)
At(s, i) == s[i + 1]

\* s[a:b] for 0 <= a, 0 <= b (Python clamps both ends to len(s))
Slice(s, a, b) == SubSeq(s, a + 1, Min(b, Len(s)))

\* s[a:]
SliceFrom(s, a) == SubSeq(s, a + 1, Len(s))

\* the whitespace characters other than blank, tab, newline, carriage return
\* and form feed, each written as its Python escape: what str.isspace()
\* holds true for, which is what str.strip() removes and the \s of re matches
OtherWhitespace ==
    {"\\v", "\\x1c", "\\x1d", "\\x1e", "\\x1f", "\\x85", "\\xa0", "\\u1680", "\\u2000",
     "\\u2001", "\\u2002", "\\u2003", "\\u2004", "\\u2005", "\\u2006", "\\u2007", "\\u2008",
     "\\u2009", "\\u200a", "\\u2028", "\\u2029", "\\u202f", "\\u205f", "\\u3000"}

\* c.isspace(): the characters str.strip() removes and \s matches
IsSpace(c) == c \in {" ", "\n", "\t", "\r", "\f"} \cup OtherWhitespace

RECURSIVE LStrip(_)
LStrip(s) == IF s # <<>> /\ IsSpace(Head(s)) THEN LStrip(Tail(s)) ELSE s

RECURSIVE RStrip(_)
RStrip(s) ==
    IF s # <<>> /\ IsSpace(s[Len(s)]) THEN RStrip(SubSeq(s, 1, Len(s) - 1)) ELSE s

\* str.strip()
Strip(s) == RStrip(LStrip(s))

\* s.startswith(pat) at offset i, i.e. s[i:i + len(pat)] == pat
MatchAt(s, i, pat) == Slice(s, i, i + Len(pat)) = pat

\* s.find(pat, start): the least index >= start where pat occurs, else -1
RECURSIVE Find(_, _, _)
Find(s, pat, start) ==
    IF start + Len(pat) > Len(s) THEN -1
    ELSE IF MatchAt(s, start, pat) THEN start
    ELSE Find(s, pat, start + 1)

\* pat in s
Contains(s, pat) == Find(s, pat, 0) # -1

\* ''.join(parts)
RECURSIVE Join(_)
Join(parts) == IF parts = <<>> THEN <<>> ELSE Head(parts) \o Join(Tail(parts))

\* all sequences over S of length at most n
SeqsUpTo(S, n) == UNION {[1..k -> S] : k \in 0..n}

----------------------------------------------------------------------------
(* _split_table_cells (parser.py).  The locals of one call are the record  *)
(* [line, i, cells, current_cell, pc]; pc is "loop" while the while-loop   *)
(* runs, "done" after return, "IndexError" if current_cell[-1] is          *)
(* assigned on an empty list.                                              *)

SplitStart(line) ==
    [line |-> line, i |-> 0, cells |-> <<>>, current_cell |-> <<>>, pc |-> "loop"]

\* the guard of the first branch: an escaped pipe
IsEscapedPipe(line, i) == i > 0 /\ At(line, i) = "|" /\ At(line, i - 1) = "\\"

\* current_cell[-1] = '|'; i += 1
SplitEscaped(st) ==
    IF st.current_cell = <<>> THEN [st EXCEPT !.pc = "IndexError"]
    ELSE [st EXCEPT !.current_cell = [@ EXCEPT ![Len(@)] = "|"], !.i = @ + 1]

\* a splitter that forgets .strip() when a pipe ends the cell
SplitPipe_NoStrip(st) ==
    [st EXCEPT !.cells = Append(@, st.current_cell),
               !.current_cell = <<>>,
               !.i = @ + 1]

\* cells.append(''.join(current_cell).strip()); current_cell = []; i += 1
SplitPipe(st) ==
    [st EXCEPT !.cells = Append(@, Strip(st.current_cell)),
               !.current_cell = <<>>,
               !.i = @ + 1]

\* current_cell.append(line[i]); i += 1
SplitChar(st) ==
    [st EXCEPT !.current_cell = Append(@, At(st.line, st.i)), !.i = @ + 1]

\* one iteration of the while loop
SplitIter(st) ==
    IF IsEscapedPipe(st.line, st.i) THEN SplitEscaped(st)
    ELSE IF At(st.line, st.i) = "|" THEN SplitPipe(st)
    ELSE SplitChar(st)

\* after the loop: append the last cell, return cells
SplitEnd(st) ==
    [st EXCEPT !.cells = IF st.current_cell # <<>> \/ st.cells # <<>>
                         THEN Append(@, Strip(st.current_cell)) ELSE @,
               !.pc = "done"]

\* the whole call, run to its return (or to the exception)
RECURSIVE SplitRun(_)
SplitRun(st) ==
    IF st.pc # "loop" THEN st
    ELSE IF st.i < Len(st.line) THEN SplitRun(SplitIter(st))
    ELSE SplitEnd(st)

split_table_cells(line) == SplitRun(SplitStart(line))

----------------------------------------------------------------------------
(* The cell splitter as a state machine: one action per loop branch.       *)

SplitAlphabet == {"a", "b", " ", "|", "\\"}

SplitIdle == [line |-> <<>>, i |-> 0, cells |-> <<>>, current_cell |-> <<>>, pc |-> "idle"]
TableIdle == [pc |-> "idle"]
CellIdle ==
    [text |-> <<>>, scanned |-> <<>>, has_newline |-> FALSE, is_code_block |-> FALSE,
     segments |-> <<>>, clean_text |-> <<>>, stack |-> <<>>, pc |-> "idle",
     rule |-> "", returned |-> <<>>, origin |-> <<>>]
GateIdle == [pc |-> "idle"]

InitSplit ==
    /\ \E line \in SeqsUpTo(SplitAlphabet, MaxLineLen) : split = SplitStart(line)
    /\ table = TableIdle
    /\ cell = CellIdle
    /\ gate = GateIdle

SplitLooping == split.pc = "loop" /\ split.i < Len(split.line)

SplitEscapedPipeStep ==
    /\ SplitLooping
    /\ IsEscapedPipe(split.line, split.i)
    /\ split' = SplitIter(split)
    /\ UNCHANGED <<table, cell, gate>>

SplitPipeStep ==
    /\ SplitLooping
    /\ ~IsEscapedPipe(split.line, split.i)
    /\ At(split.line, split.i) = "|"
    /\ split' = SplitIter(split)
    /\ UNCHANGED <<table, cell, gate>>

SplitCharStep ==
    /\ SplitLooping
    /\ At(split.line, split.i) # "|"
    /\ split' = SplitIter(split)
    /\ UNCHANGED <<table, cell, gate>>

SplitReturn ==
    /\ split.pc = "loop"
    /\ split.i >= Len(split.line)
    /\ split' = SplitEnd(split)
    /\ UNCHANGED <<table, cell, gate>>

NextSplit == SplitEscapedPipeStep \/ SplitPipeStep \/ SplitCharStep \/ SplitReturn

SpecSplit == InitSplit /\ [][NextSplit]_vars

----------------------------------------------------------------------------
(* parse_markdown_table (parser.py).  The locals of one call are the       *)
(* record [md_text, lines, i, table_data, separator_found, pc, returned]:  *)
(* i is the index of the for loop, pc is "start", "loop", "after" (past    *)
(* the loop), "done" (returned) or "IndexError" (raised by the splitter);  *)
(* returned is "None" or "table" (the value is then table_data).           *)

\* s.split('\n')
RECURSIVE SplitNL(_)
SplitNL(s) ==
    LET k == Find(s, <<"\n">>, 0)
    IN  IF k = -1 THEN <<s>> ELSE <<Slice(s, 0, k)>> \o SplitNL(SliceFrom(s, k + 1))

\* '\n'.join(ls)
RECURSIVE JoinNL(_)
JoinNL(ls) ==
    IF ls = <<>> THEN <<>>
    ELSE IF Len(ls) = 1 THEN Head(ls)
    ELSE Head(ls) \o <<"\n">> \o JoinNL(Tail(ls))

\* line.startswith('|') or line.endswith('|') or '|' in line
IsTableLine(line) ==
    \/ MatchAt(line, 0, <<"|">>)
    \/ (line # <<>> /\ line[Len(line)] = "|")
    \/ Contains(line, <<"|">>)

\* re.match of the separator pattern
\*     ^ \s* \|? \s* [-:]+ \s* ( \| \s* [-:]+ \s* )+ \|? \s* $
\* (written here with blanks between its parts), computed as the set of
\* positions each part of the pattern can end at, starting from the set of
\* positions the part before it can end at.

\* \s* from any position of P
ReSpaces(s, P) ==
    {q \in 0..Len(s) : \E p \in P : p <= q /\ \A k \in p..(q - 1) : IsSpace(At(s, k))}

\* [-:]+ from any position of P
ReDashes(s, P) ==
    {q \in 0..Len(s) : \E p \in P : p < q /\ \A k \in p..(q - 1) : At(s, k) \in {"-", ":"}}

\* \| from any position of P
RePipe(s, P) == {p + 1 : p \in {r \in P : r < Len(s) /\ At(s, r) = "|"}}

\* \|? from any position of P
ReOptPipe(s, P) == P \cup RePipe(s, P)

\* one repetition of the group \| \s* [-:]+ \s*
ReGroup(s, P) == ReSpaces(s, ReDashes(s, ReSpaces(s, RePipe(s, P))))

\* the group repeated, ( ... )+ : the positions reached after one or more repetitions
RECURSIVE ReGroupPlus(_, _, _)
ReGroupPlus(s, P, acc) ==
    LET N == ReGroup(s, P)
    IN  IF N \subseteq acc THEN acc ELSE ReGroupPlus(s, N, acc \cup N)

\* $ : the end of the string, or just before a final newline
ReEnd(s, P) ==
    \E p \in P : p = Len(s) \/ (p = Len(s) - 1 /\ At(s, p) = "\n")

\* the pattern with its group repeated zero or more times, ( ... )*
IsSeparatorRow_GroupStar(line) ==
    LET head == ReSpaces(line, ReDashes(line, ReSpaces(line, ReOptPipe(line, ReSpaces(line, {0})))))
        body == head \cup ReGroupPlus(line, head, {})
    IN  ReEnd(line, ReSpaces(line, ReOptPipe(line, body)))

IsSeparatorRow(line) ==
    LET head == ReSpaces(line, ReDashes(line, ReSpaces(line, ReOptPipe(line, ReSpaces(line, {0})))))
        body == ReGroupPlus(line, head, {})
    IN  ReEnd(line, ReSpaces(line, ReOptPipe(line, body)))

\* a parser that drops every empty cell at the two ends of the row
RECURSIVE FrameStrip_AllEmpty(_)
FrameStrip_AllEmpty(cells) ==
    IF cells # <<>> /\ Head(cells) = <<>> THEN FrameStrip_AllEmpty(Tail(cells))
    ELSE IF cells # <<>> /\ cells[Len(cells)] = <<>>
         THEN FrameStrip_AllEmpty(SubSeq(cells, 1, Len(cells) - 1))
         ELSE cells

\* if cells and cells[0] == '': cells = cells[1:]
\* if cells and cells[-1] == '': cells = cells[:-1]
FrameStrip(cells) ==
    LET c1 == IF cells # <<>> /\ Head(cells) = <<>> THEN Tail(cells) ELSE cells
    IN  IF c1 # <<>> /\ c1[Len(c1)] = <<>> THEN SubSeq(c1, 1, Len(c1) - 1) ELSE c1

TableStart(md_text) ==
    [md_text |-> md_text, lines |-> <<>>, i |-> 0, table_data |-> <<>>,
     separator_found |-> FALSE, pc |-> "start", returned |-> ""]

\* lines = md_text.strip().split('\n'); if len(lines) < 2: return None
TableSplitLines(t) ==
    LET lines == SplitNL(Strip(t.md_text))
    IN  IF Len(lines) < 2
        THEN [t EXCEPT !.lines = lines, !.pc = "done", !.returned = "None"]
        ELSE [t EXCEPT !.lines = lines, !.pc = "loop"]

\* line = line.strip() of the line the loop is at
CurrentLine(t) == Strip(t.lines[t.i + 1])

\* if not line: continue
TableSkipBlank(t) == [t EXCEPT !.i = @ + 1]

\* a parser that steps over a line without '|' as it does over a blank line
TableNonTableLine_Continues(t) == [t EXCEPT !.i = @ + 1]

\* a line without '|': break after the separator, return None before it
TableNonTableLine(t) ==
    IF t.separator_found THEN [t EXCEPT !.pc = "after"]
    ELSE [t EXCEPT !.pc = "done", !.returned = "None"]

\* a parser that treats the rows above the separator as a header and drops them
TableSeparator_DropsHeader(t) ==
    [t EXCEPT !.separator_found = TRUE, !.table_data = <<>>, !.i = @ + 1]

\* separator_found = True; continue
TableSeparator(t) == [t EXCEPT !.separator_found = TRUE, !.i = @ + 1]

\* cells = _split_table_cells(line); strip the frame; append if non-empty
TableRow(t) ==
    LET sp == split_table_cells(CurrentLine(t))
        cells == FrameStrip(sp.cells)
    IN  IF sp.pc # "done" THEN [t EXCEPT !.pc = sp.pc]
        ELSE [t EXCEPT !.table_data = IF cells # <<>> THEN Append(@, cells) ELSE @,
                       !.i = @ + 1]

\* one iteration of the for loop
TableIter(t) ==
    LET line == CurrentLine(t)
    IN  IF line = <<>> THEN TableSkipBlank(t)
        ELSE IF ~IsTableLine(line) THEN TableNonTableLine(t)
        ELSE IF IsSeparatorRow(line) THEN TableSeparator(t)
        ELSE TableRow(t)

\* a parser that returns the rows it collected without asking for a separator
TableEnd_NoSeparatorCheck(t) ==
    IF t.table_data = <<>>
    THEN [t EXCEPT !.pc = "done", !.returned = "None"]
    ELSE [t EXCEPT !.pc = "done", !.returned = "table"]

\* if not separator_found or not table_data: return None; return table_data
TableEnd(t) ==
    IF ~t.separator_found \/ t.table_data = <<>>
    THEN [t EXCEPT !.pc = "done", !.returned = "None"]
    ELSE [t EXCEPT !.pc = "done", !.returned = "table"]

\* the whole call, run to its return (or to the exception)
RECURSIVE TableRun(_)
TableRun(t) ==
    IF t.pc = "start" THEN TableRun(TableSplitLines(t))
    ELSE IF t.pc = "loop" /\ t.i < Len(t.lines) THEN TableRun(TableIter(t))
    ELSE IF t.pc \in {"loop", "after"} THEN TableEnd(t)
    ELSE t

parse_markdown_table(md_text) == TableRun(TableStart(md_text))

----------------------------------------------------------------------------
(* The table parser as a state machine: one action per outcome of a line.  *)

\* the lines clipboard texts are assembled from: blank and pipe-less lines,
\* framed and unframed rows, separator rows and near-separators, rows with
\* escaped pipes, empty cells and surrounding blanks
TableLines ==
    { <<>>,
      <<"a">>,
      <<"|", " ", "A", " ", "|", " ", "B", " ", "|">>,
      <<"|", "-", "-", "-", "|", "-", "-", "-", "|">>,
      <<":", "-", "|", "-", ":">>,
      <<"|", "-", "-", "-", "|">>,
      <<"|">>,
      <<"x", "\\", "|", "y", "|", "|", "z">> }

\* the table of the specification's round-trip example
ExampleTable ==
    <<"|", " ", "A", " ", "|", " ", "B", " ", "|", "\n", "|", "-", "-", "-", "|", "-", "-", "-", "|", "\n", "|", " ", "1", " ", "|", " ", "2", " ", "|">>

\* the same table as a Windows clipboard holds it, its lines ended by CR LF
ExampleTableCRLF ==
    <<"|", " ", "A", " ", "|", " ", "B", " ", "|", "\r", "\n", "|", "-", "-", "-", "|", "-", "-", "-", "|", "\r", "\n", "|", " ", "1", " ", "|", " ", "2", " ", "|">>

ExampleTables == {ExampleTable, ExampleTableCRLF}

InitTable ==
    /\ \E md_text \in {JoinNL(ls) : ls \in SeqsUpTo(TableLines, MaxLines)} \cup ExampleTables :
          table = TableStart(md_text)
    /\ split = SplitIdle
    /\ cell = CellIdle
    /\ gate = GateIdle

TableLooping == table.pc = "loop" /\ table.i < Len(table.lines)

TableBegin ==
    /\ table.pc = "start"
    /\ Len(SplitNL(Strip(table.md_text))) >= 2
    /\ table' = TableSplitLines(table)
    /\ UNCHANGED <<split, cell, gate>>

TableTooShort ==
    /\ table.pc = "start"
    /\ Len(SplitNL(Strip(table.md_text))) < 2
    /\ table' = TableSplitLines(table)
    /\ UNCHANGED <<split, cell, gate>>

TableBlankStep ==
    /\ TableLooping
    /\ CurrentLine(table) = <<>>
    /\ table' = TableIter(table)
    /\ UNCHANGED <<split, cell, gate>>

TableNotATable ==
    /\ TableLooping
    /\ CurrentLine(table) # <<>>
    /\ ~IsTableLine(CurrentLine(table))
    /\ ~table.separator_found
    /\ table' = TableIter(table)
    /\ UNCHANGED <<split, cell, gate>>

TableBreak ==
    /\ TableLooping
    /\ CurrentLine(table) # <<>>
    /\ ~IsTableLine(CurrentLine(table))
    /\ table.separator_found
    /\ table' = TableIter(table)
    /\ UNCHANGED <<split, cell, gate>>

TableSeparatorStep ==
    /\ TableLooping
    /\ IsTableLine(CurrentLine(table)) = TRUE
    /\ IsSeparatorRow(CurrentLine(table))
    /\ table' = TableIter(table)
    /\ UNCHANGED <<split, cell, gate>>

TableRowStep ==
    /\ TableLooping
    /\ IsTableLine(CurrentLine(table)) = TRUE
    /\ ~IsSeparatorRow(CurrentLine(table))
    /\ table' = TableIter(table)
    /\ UNCHANGED <<split, cell, gate>>

TableReturn ==
    /\ \/ table.pc = "after"
       \/ table.pc = "loop" /\ table.i >= Len(table.lines)
    /\ table' = TableEnd(table)
    /\ UNCHANGED <<split, cell, gate>>

NextTable ==
    \/ TableBegin
    \/ TableTooShort
    \/ TableBlankStep
    \/ TableNotATable
    \/ TableBreak
    \/ TableSeparatorStep
    \/ TableRowStep
    \/ TableReturn

SpecTable == InitTable /\ [][NextTable]_vars

----------------------------------------------------------------------------
(* TextSegment and CellFormat (formatting.py).                             *)
(*                                                                         *)
(* A TextSegment is the record of its six attributes; hyperlink_url is     *)
(* <<>> for None and <<url>> for a str url (the url may be the empty str). *)
(*                                                                         *)
(* One call of CellFormat.parse is the record cell:                        *)
(*   text, has_newline, is_code_block, segments, clean_text                *)
(*              the attributes of the CellFormat;                          *)
(*   scanned    the local text after the <br> substitution;                *)
(*   stack      the call stack of _parse_segments, innermost call last;    *)
(*   pc         "start", "scan" or "done";                                 *)
(*   rule       the branch of the loop body the innermost call takes next  *)
(*              (the position of the control), "return" at the end of a    *)
(*              recursive call, "end" at the end of the outermost call;    *)
(*   returned   the value parse returns;                                   *)
(*   origin     a history of the inline scan: for each character emitted   *)
(*              so far, in order, its index in scanned and the statement   *)
(*              that emitted it ("escape", "code" or "literal").           *)
(*                                                                         *)
(* A stack frame is the locals of one call of _parse_segments:             *)
(*   text, i, bold, italic, strikethrough, current_text, segments;         *)
(*   link       <<url>> while the frame waits for the recursive call made  *)
(*              for a link text, <<>> otherwise;                           *)
(*   offset     the index in scanned of text[0] (every text scanned is a   *)
(*              slice of scanned).                                         *)

NoUrl == <<>>

\* the character ` (U+0060), which a string of this notation cannot hold:
\* the one character of the model that is written by name
Backtick == "backtick"

TextSegment(text, bold, italic, strikethrough, is_code, hyperlink_url) ==
    [text |-> text, bold |-> bold, italic |-> italic,
     strikethrough |-> strikethrough, is_code |-> is_code,
     hyperlink_url |-> hyperlink_url]

UpperLetters == <<"A", "B", "C", "D", "E", "F", "G", "H", "I", "J", "K", "L", "M",
                  "N", "O", "P", "Q", "R", "S", "T", "U", "V", "W", "X", "Y", "Z">>

LowerLetters == <<"a", "b", "c", "d", "e", "f", "g", "h", "i", "j", "k", "l", "m",
                  "n", "o", "p", "q", "r", "s", "t", "u", "v", "w", "x", "y", "z">>

\* str.lower() of one character
LowerChar(c) ==
    IF \E k \in 1..26 : UpperLetters[k] = c
    THEN LowerLetters[CHOOSE k \in 1..26 : UpperLetters[k] = c]
    ELSE c

\* str.lower()
Lower(s) == [k \in 1..Len(s) |-> LowerChar(s[k])]

\* the end of the match of <br\s*/?> (IGNORECASE) that starts at i, or -1
RECURSIVE SkipSpaces(_, _)
SkipSpaces(s, i) == IF i < Len(s) /\ IsSpace(At(s, i)) THEN SkipSpaces(s, i + 1) ELSE i

\* the match of <br\s*/?> with the letter case not folded
BrMatchEnd_CaseSensitive(s, i) ==
    IF ~MatchAt(s, i, <<"<", "b", "r">>) THEN -1
    ELSE LET j == SkipSpaces(s, i + 3)
             k == IF j < Len(s) /\ At(s, j) = "/" THEN j + 1 ELSE j
         IN  IF k < Len(s) /\ At(s, k) = ">" THEN k + 1 ELSE -1

BrMatchEnd(s, i) ==
    IF ~MatchAt(Lower(s), i, <<"<", "b", "r">>) THEN -1
    ELSE LET j == SkipSpaces(s, i + 3)
             k == IF j < Len(s) /\ At(s, j) = "/" THEN j + 1 ELSE j
         IN  IF k < Len(s) /\ At(s, k) = ">" THEN k + 1 ELSE -1

\* re.sub(r'<br\s*/?>', '\n', s, flags=re.IGNORECASE)
RECURSIVE ReplaceBrFrom(_, _)
ReplaceBrFrom(s, i) ==
    IF i >= Len(s) THEN <<>>
    ELSE IF BrMatchEnd(s, i) # -1 THEN <<"\n">> \o ReplaceBrFrom(s, BrMatchEnd(s, i))
    ELSE <<At(s, i)>> \o ReplaceBrFrom(s, i + 1)

ReplaceBr(s) == ReplaceBrFrom(s, 0)

\* re.sub(open + r'(.*?)' + close, lambda m: ReplaceBr(m.group(1)), s,
\*        flags=re.DOTALL | re.IGNORECASE) for literal tags open and close
RECURSIVE UnwrapTagFrom(_, _, _, _)
UnwrapTagFrom(s, i, open, close) ==
    IF i >= Len(s) THEN <<>>
    ELSE LET e == IF MatchAt(Lower(s), i, open)
                  THEN Find(Lower(s), close, i + Len(open)) ELSE -1
         IN  IF e # -1
             THEN ReplaceBr(Slice(s, i + Len(open), e))
                    \o UnwrapTagFrom(s, e + Len(close), open, close)
             ELSE <<At(s, i)>> \o UnwrapTagFrom(s, i + 1, open, close)

UnwrapTag(s, open, close) == UnwrapTagFrom(s, 0, open, close)

PreOpen == <<"<", "p", "r", "e", ">">>
PreClose == <<"<", "/", "p", "r", "e", ">">>
CodeOpen == <<"<", "c", "o", "d", "e", ">">>
CodeClose == <<"<", "/", "c", "o", "d", "e", ">">>

\* '<pre>' in text.lower() or '<code>' in text.lower()
HasCodeBlockTag(s) == Contains(Lower(s), PreOpen) \/ Contains(Lower(s), CodeOpen)

\* the text of the code block: both substitutions, then strip()
CodeBlockText(s) ==
    Strip(UnwrapTag(UnwrapTag(s, PreOpen, PreClose), CodeOpen, CodeClose))

\* ''.join(seg.text for seg in segments)
RECURSIVE JoinSegments(_)
JoinSegments(segs) ==
    IF segs = <<>> THEN <<>> ELSE Head(segs).text \o JoinSegments(Tail(segs))

CellStart(text) ==
    [text |-> text, scanned |-> <<>>, has_newline |-> FALSE, is_code_block |-> FALSE,
     segments |-> <<>>, clean_text |-> text, stack |-> <<>>, pc |-> "start",
     rule |-> "", returned |-> <<>>, origin |-> <<>>]

\* the locals of a fresh call _parse_segments(text, bold, italic, strikethrough)
Frame(text, bold, italic, strikethrough, offset) ==
    [text |-> text, i |-> 0, bold |-> bold, italic |-> italic,
     strikethrough |-> strikethrough, current_text |-> <<>>, segments |-> <<>>,
     link |-> NoUrl, offset |-> offset]

\* the code-block path with the segment made of the text before strip()
CodeBlockResult_UnstrippedSegment(c, text, clean) ==
    [c EXCEPT !.scanned = text, !.has_newline = Contains(text, <<"\n">>),
              !.is_code_block = TRUE, !.clean_text = clean,
              !.segments = <<TextSegment(UnwrapTag(UnwrapTag(text, PreOpen, PreClose),
                                                   CodeOpen, CodeClose),
                                         FALSE, FALSE, FALSE, TRUE, NoUrl)>>,
              !.returned = clean, !.pc = "done"]

\* the code-block path of parse (formatting.py:40-50), text being the local
\* text after the <br> substitution and clean its unwrapped, stripped form
CodeBlockResult(c, text, clean) ==
    [c EXCEPT !.scanned = text, !.has_newline = Contains(text, <<"\n">>),
              !.is_code_block = TRUE, !.clean_text = clean,
              !.segments = <<TextSegment(clean, FALSE, FALSE, FALSE, TRUE, NoUrl)>>,
              !.returned = clean, !.pc = "done"]

ParseCodeBlockPath(c, text) == CodeBlockResult(c, text, CodeBlockText(text))

\* flush_current()
\* flush_current emitting its segment without the style of the call
flush_current_NoStyle(f) ==
    IF f.current_text = <<>> THEN f
    ELSE [f EXCEPT !.segments = Append(@, TextSegment(f.current_text, FALSE, FALSE, FALSE,
                                                      FALSE, NoUrl)),
                   !.current_text = <<>>]

flush_current(f) ==
    IF f.current_text # <<>>
    THEN [f EXCEPT !.segments = Append(@, TextSegment(f.current_text, f.bold, f.italic,
                                                      f.strikethrough, FALSE, NoUrl)),
                   !.current_text = <<>>]
    ELSE f

\* the closing '**' or '__' of the while loop at formatting.py:124 and 153:
\* the least end in i + 2 .. len(text) - 2 with text[end:end + 2] == d, or -1
RECURSIVE FindPair(_, _, _)
FindPair(text, d, end) ==
    IF ~(end < Len(text) - 1) THEN -1
    ELSE IF Slice(text, end, end + 2) = d THEN end
    ELSE FindPair(text, d, end + 1)

\* the closing '*' or '_' of the while loop at formatting.py:171 and 188:
\* the least end >= start with text[end] == d not followed by another d, or -1
RECURSIVE FindSingle(_, _, _)
FindSingle(text, d, end) ==
    IF ~(end < Len(text)) THEN -1
    ELSE IF At(text, end) = d /\ (end + 1 >= Len(text) \/ At(text, end + 1) # d) THEN end
    ELSE FindSingle(text, d, end + 1)

\* text[i] == d and (i + 1 >= len(text) or text[i + 1] != d)
IsSingle(text, i, d) ==
    At(text, i) = d /\ (i + 1 >= Len(text) \/ At(text, i + 1) # d)

\* the index of ']' when text[i] opens a link whose '](' follows, else -1
LinkBracket(text, i) ==
    LET cb == Find(text, <<"]">>, i + 1)
    IN  IF cb # -1 /\ cb + 1 < Len(text) /\ At(text, cb + 1) = "(" THEN cb ELSE -1

\* the index of the ')' that closes the link opened at text[i], else -1
LinkParen(text, i) ==
    IF LinkBracket(text, i) = -1 THEN -1
    ELSE Find(text, <<")">>, LinkBracket(text, i) + 2)

\* the branch of the loop body of _parse_segments taken at text[i]
Rule(f) ==
    LET text == f.text
        i == f.i
    IN  IF At(text, i) = "\\" /\ i + 1 < Len(text) THEN "escape"
        ELSE IF At(text, i) = Backtick /\ Find(text, <<Backtick>>, i + 1) # -1 THEN "code"
        ELSE IF MatchAt(text, i, <<"~", "~">>) /\ ~f.strikethrough
                /\ Find(text, <<"~", "~">>, i + 2) # -1 THEN "strike"
        ELSE IF MatchAt(text, i, <<"*", "*", "*">>) /\ ~f.bold /\ ~f.italic
                /\ Find(text, <<"*", "*", "*">>, i + 3) # -1 THEN "bold_italic_star"
        ELSE IF MatchAt(text, i, <<"*", "*">>) /\ ~f.bold
             THEN IF FindPair(text, <<"*", "*">>, i + 2) # -1
                  THEN "bold_star" ELSE "bold_star_unmatched"
        ELSE IF MatchAt(text, i, <<"_", "_", "_">>) /\ ~f.bold /\ ~f.italic
                /\ Find(text, <<"_", "_", "_">>, i + 3) # -1 THEN "bold_italic_underscore"
        ELSE IF MatchAt(text, i, <<"_", "_">>) /\ ~f.bold
             THEN IF FindPair(text, <<"_", "_">>, i + 2) # -1
                  THEN "bold_underscore" ELSE "bold_underscore_unmatched"
        ELSE IF IsSingle(text, i, "*")
             THEN IF FindSingle(text, "*", i + 1) # -1
                  THEN "italic_star" ELSE "italic_star_unmatched"
        ELSE IF IsSingle(text, i, "_")
             THEN IF FindSingle(text, "_", i + 1) # -1
                  THEN "italic_underscore" ELSE "italic_underscore_unmatched"
        ELSE IF At(text, i) = "[" /\ LinkParen(text, i) # -1 THEN "link"
        ELSE "char"

\* current_text.append(text[i]) without i += 1
Literal_Stuck(f) == [f EXCEPT !.current_text = Append(@, At(f.text, f.i))]

\* flush_current() behind current_text.append(text[i]); i += 1
Literal_FlushedAtOnce(f) ==
    flush_current([f EXCEPT !.current_text = Append(@, At(f.text, f.i)), !.i = @ + 1])

\* flush_current() before current_text.append(text[i]); i += 1
Literal_OwnSegment(f) ==
    [flush_current(f) EXCEPT !.current_text = <<At(f.text, f.i)>>, !.i = @ + 1]

\* current_text.append(text[i]); i += 1
\* a parser that takes both characters of a ** or __ at text[i] as literal
Literal_WholeDelimiter(f) ==
    IF MatchAt(f.text, f.i, <<"*", "*">>) \/ MatchAt(f.text, f.i, <<"_", "_">>)
    THEN [f EXCEPT !.current_text = @ \o Slice(f.text, f.i, f.i + 2), !.i = @ + 2]
    ELSE [f EXCEPT !.current_text = Append(@, At(f.text, f.i)), !.i = @ + 1]

\* a parser that emits a literal character twice
Literal_Twice(f) ==
    [f EXCEPT !.current_text = @ \o <<At(f.text, f.i), At(f.text, f.i)>>, !.i = @ + 1]

Literal(f) == [f EXCEPT !.current_text = Append(@, At(f.text, f.i)), !.i = @ + 1]

\* TextSegment(code_text, is_code=True)
CodeSegment(code_text) == TextSegment(code_text, FALSE, FALSE, FALSE, TRUE, NoUrl)

\* the caller's frame at the recursive call: flush_current(), then the index
\* the loop resumes at and the url the returned segments are to be given
Suspend(f, resume, link) == [flush_current(f) EXCEPT !.i = resume, !.link = link]

\* the recursive call _parse_segments(inner, ...) at text[i + k:end]: the
\* caller is suspended until it returns, to resume behind the closing delimiter
Span(f, k, end, bold, italic, strikethrough) ==
    <<Suspend(f, end + k, NoUrl),
      Frame(Slice(f.text, f.i + k, end), bold, italic, strikethrough, f.offset + f.i + k)>>

\* the escape branch closing the segment in progress before the escaped character
Escape_OwnSegment(f) ==
    <<[flush_current(f) EXCEPT !.current_text = <<At(f.text, f.i + 1)>>, !.i = @ + 2]>>

\* formatting.py:82-85
Escape(f) == <<[f EXCEPT !.current_text = Append(@, At(f.text, f.i + 1)), !.i = @ + 2]>>

\* the code span given the style of the call instead of none
CodeSpanTo_AmbientStyle(f, end) ==
    <<[flush_current(f) EXCEPT
         !.segments = Append(@, TextSegment(Slice(f.text, f.i + 1, end), f.bold, f.italic,
                                            f.strikethrough, TRUE, NoUrl)),
         !.i = end + 1]>>

\* formatting.py:88-96
CodeSpanTo(f, end) ==
    <<[flush_current(f) EXCEPT
         !.segments = Append(@, CodeSegment(Slice(f.text, f.i + 1, end))),
         !.i = end + 1]>>

CodeSpan(f) == CodeSpanTo(f, Find(f.text, <<Backtick>>, f.i + 1))

\* formatting.py:99-107
Strike(f) ==
    Span(f, 2, Find(f.text, <<"~", "~">>, f.i + 2), f.bold, f.italic, TRUE)

\* formatting.py:110-118 and 140-148, d being '***' or '___'
BoldItalic(f, d) == Span(f, 3, Find(f.text, d, f.i + 3), TRUE, TRUE, f.strikethrough)

\* formatting.py:121-134 and 150-163, d being '**' or '__'
Bold(f, d) == Span(f, 2, FindPair(f.text, d, f.i + 2), TRUE, f.italic, f.strikethrough)

\* the italic span parsed without the bold of the call
Italic_DropsBold(f, d) ==
    Span(f, 1, FindSingle(f.text, d, f.i + 1), FALSE, TRUE, f.strikethrough)

\* formatting.py:168-181 and 186-198, d being '*' or '_'
Italic(f, d) == Span(f, 1, FindSingle(f.text, d, f.i + 1), f.bold, TRUE, f.strikethrough)

\* formatting.py:203-219
LinkTo(f, close_bracket, close_paren) ==
    <<Suspend(f, close_paren + 1, <<Slice(f.text, close_bracket + 2, close_paren)>>),
      Frame(Slice(f.text, f.i + 1, close_bracket), f.bold, f.italic, f.strikethrough,
            f.offset + f.i + 1)>>

Link(f) == LinkTo(f, LinkBracket(f.text, f.i), LinkParen(f.text, f.i))

\* the body of the while loop at branch r: the frame of the innermost call
\* after it, with the frame of the callee above it at a recursive call
Branch(f, r) ==
    CASE r = "escape" -> Escape(f)
      [] r = "code" -> CodeSpan(f)
      [] r = "strike" -> Strike(f)
      [] r = "bold_italic_star" -> BoldItalic(f, <<"*", "*", "*">>)
      [] r = "bold_star" -> Bold(f, <<"*", "*">>)
      [] r = "bold_italic_underscore" -> BoldItalic(f, <<"_", "_", "_">>)
      [] r = "bold_underscore" -> Bold(f, <<"_", "_">>)
      [] r = "italic_star" -> Italic(f, "*")
      [] r = "italic_underscore" -> Italic(f, "_")
      [] r = "link" -> Link(f)
      [] OTHER -> <<Literal(f)>>

\* the innermost call
Top(stack) == stack[Len(stack)]

\* the url given to the first of the returned segments only
WithUrl_FirstOnly(segs, link) ==
    IF link = NoUrl \/ segs = <<>> THEN segs
    ELSE <<[Head(segs) EXCEPT !.hyperlink_url = link]>> \o Tail(segs)

\* for seg in link_segments: seg.hyperlink_url = link_url
WithUrl(segs, link) ==
    IF link = NoUrl THEN segs
    ELSE [k \in 1..Len(segs) |-> [segs[k] EXCEPT !.hyperlink_url = link]]

\* the innermost call returns (flush_current(); return segments) into the
\* call below it: segments.extend(...)
ScanReturn(stack) ==
    LET n == Len(stack)
        result == flush_current(stack[n]).segments
        caller == stack[n - 1]
    IN  SubSeq(stack, 1, n - 2)
          \o <<[caller EXCEPT !.segments = @ \o WithUrl(result, caller.link),
                              !.link = NoUrl]>>

\* the outermost call returns into parse: self.segments, self.clean_text
ParseEnd(c) ==
    LET result == flush_current(c.stack[1]).segments
        clean == JoinSegments(result)
    IN  [c EXCEPT !.segments = result, !.clean_text = clean, !.returned = clean,
                  !.stack = <<>>, !.rule = "", !.pc = "done"]

\* where the control of the innermost call is: the branch of the loop body
\* it takes next, "return" at the end of a recursive call, "end" at the end
\* of the outermost call
NextRule(stack) ==
    LET n == Len(stack)
        f == stack[n]
    IN  IF f.i < Len(f.text) THEN Rule(f)
        ELSE IF n > 1 THEN "return"
        ELSE "end"

\* the characters the iteration at branch r emits: their indices in scanned
\* and the statement that emits them
CodeOrigin(f, end) ==
    [k \in 1..(end - f.i - 1) |-> [pos |-> f.offset + f.i + k, how |-> "code"]]

Emitted(f, r) ==
    IF r = "escape" THEN <<[pos |-> f.offset + f.i + 1, how |-> "escape"]>>
    ELSE IF r = "code" THEN CodeOrigin(f, Find(f.text, <<Backtick>>, f.i + 1))
    ELSE IF r \in {"char", "bold_star_unmatched", "bold_underscore_unmatched",
                   "italic_star_unmatched", "italic_underscore_unmatched"}
         THEN <<[pos |-> f.offset + f.i, how |-> "literal"]>>
    ELSE <<>>

\* the stack after an iteration or a return, and the branch taken next
Continue(c, stack, emitted) ==
    [c EXCEPT !.stack = stack, !.rule = NextRule(stack), !.origin = @ \o emitted]

\* one iteration of the while loop of the innermost call, top being the
\* frames Branch gives for it
Scan(c, top) ==
    Continue(c, SubSeq(c.stack, 1, Len(c.stack) - 1) \o top, Emitted(Top(c.stack), c.rule))

ScanIter(c) == Scan(c, Branch(Top(c.stack), c.rule))

\* the inline path of parse: the call _parse_segments(text)
InlineCall(c, text, stack) ==
    [c EXCEPT !.scanned = text, !.has_newline = Contains(text, <<"\n">>),
              !.stack = stack, !.rule = NextRule(stack), !.pc = "scan"]

ParseInlinePath(c, text) == InlineCall(c, text, <<Frame(text, FALSE, FALSE, FALSE, 0)>>)

\* parse up to the choice of path: the code-block path returns at once, the
\* inline path calls _parse_segments(text)
ParsePath(c, text) ==
    IF HasCodeBlockTag(text) THEN ParseCodeBlockPath(c, text) ELSE ParseInlinePath(c, text)

ParseBegin(c) == ParsePath(c, ReplaceBr(c.text))

\* one step of parse
CellStep(c) ==
    IF c.pc = "start" THEN ParseBegin(c)
    ELSE IF c.rule = "end" THEN ParseEnd(c)
    ELSE IF c.rule = "return" THEN Continue(c, ScanReturn(c.stack), <<>>)
    ELSE ScanIter(c)

\* the whole call of parse, run to its return
RECURSIVE CellRun(_)
CellRun(c) == IF c.pc = "done" THEN c ELSE CellRun(CellStep(c))

parse(text) == CellRun(CellStart(text))

----------------------------------------------------------------------------
(* CellFormat.parse as a state machine: one action per path of parse and   *)
(* per branch of the loop body of _parse_segments.                         *)

\* the characters and markup tokens cell texts are assembled from
CellPieces ==
    { <<"a">>,
      <<" ">>,
      <<"\\">>,
      <<Backtick>>,
      <<"*">>,
      <<"~", "~">>,
      <<"*", "*">>,
      <<"[">>,
      <<"]", "(">>,
      <<")">>,
      <<"<", "b", "r", ">">>,
      <<"<", "p", "r", "e", ">">>,
      <<"<", "/", "p", "r", "e", ">">> }

\* the cell texts of the specification's examples, and one text for each
\* markup form that MaxPieces pieces do not reach
ExampleCells ==
    { <<"*", "*", "a", " ", "*", "b", "*", " ", "c", "*", "*">>,
      <<Backtick, "*", "x", "*", Backtick>>,
      <<"\\", "*", "l", "i", "t", "e", "r", "a", "l", "\\", "*">>,
      <<"*", "h", "e", "l", "l", "o">>,
      <<"[", "*", "*", "b", "o", "l", "d", " ", "l", "i", "n", "k", "*", "*", "]", "(", "h", "t", "t", "p", ":", "/", "/", "x", ")">>,
      <<"<", "p", "r", "e", ">", "l", "i", "n", "e", "1", "<", "b", "r", ">", "l", "i", "n", "e", "2", "<", "/", "p", "r", "e", ">">>,
      <<"*", "*", "*", "a", "*", "*", "*">>,
      <<"_", "_", "_", "a", "_", "_", "_">>,
      <<"_", "_", "a", "_", "_">>,
      <<"_", "a", "_">>,
      <<"_", "_", "a">>,
      <<"_", "a">>,
      <<"<", "C", "O", "D", "E", ">", "a", "<", "/", "C", "O", "D", "E", ">">>,
      <<"a", "<", "B", "R", " ", "/", ">", "b">>,
      <<"*", Backtick, "a", Backtick, "*">>,
      <<"x", "[", "a", "*", "b", "*", "]", "(", "u", ")", "y">>,
      <<"a", "\n", "b">>,
      <<"[", "a", "]", "(", "<", "B", "R", "/", ">", ")">>,
      <<"~", "~", "*", "*", "a", "*", "*", " ", "_", "b", "_", "~", "~">>,
      <<"*", "a", Backtick, "*", Backtick>>,
      <<"*", "a", "*", "_", "b", "_">> }

CellTexts == {Join(ps) : ps \in SeqsUpTo(CellPieces, MaxPieces)} \cup ExampleCells

InitCell ==
    /\ \E text \in CellTexts : cell = CellStart(text)
    /\ split = SplitIdle
    /\ table = TableIdle
    /\ gate = GateIdle

ParseCodeBlock ==
    /\ cell.pc = "start"
    /\ HasCodeBlockTag(ReplaceBr(cell.text)) = TRUE
    /\ cell' = ParseCodeBlockPath(cell, ReplaceBr(cell.text))
    /\ UNCHANGED <<split, table, gate>>

ParseInline ==
    /\ cell.pc = "start"
    /\ ~HasCodeBlockTag(ReplaceBr(cell.text))
    /\ cell' = ParseInlinePath(cell, ReplaceBr(cell.text))
    /\ UNCHANGED <<split, table, gate>>

ScanEscape ==
    /\ cell.pc = "scan"
    /\ cell.rule = "escape"
    /\ cell' = Scan(cell, Escape(Top(cell.stack)))
    /\ UNCHANGED <<split, table, gate>>

ScanCode ==
    /\ cell.pc = "scan"
    /\ cell.rule = "code"
    /\ cell' = Scan(cell, CodeSpan(Top(cell.stack)))
    /\ UNCHANGED <<split, table, gate>>

ScanStrike ==
    /\ cell.pc = "scan"
    /\ cell.rule = "strike"
    /\ cell' = Scan(cell, Strike(Top(cell.stack)))
    /\ UNCHANGED <<split, table, gate>>

ScanBoldItalicStar ==
    /\ cell.pc = "scan"
    /\ cell.rule = "bold_italic_star"
    /\ cell' = Scan(cell, BoldItalic(Top(cell.stack), <<"*", "*", "*">>))
    /\ UNCHANGED <<split, table, gate>>

ScanBoldStar ==
    /\ cell.pc = "scan"
    /\ cell.rule = "bold_star"
    /\ cell' = Scan(cell, Bold(Top(cell.stack), <<"*", "*">>))
    /\ UNCHANGED <<split, table, gate>>

ScanBoldStarUnmatched ==
    /\ cell.pc = "scan"
    /\ cell.rule = "bold_star_unmatched"
    /\ cell' = Scan(cell, <<Literal(Top(cell.stack))>>)
    /\ UNCHANGED <<split, table, gate>>

ScanBoldItalicUnderscore ==
    /\ cell.pc = "scan"
    /\ cell.rule = "bold_italic_underscore"
    /\ cell' = Scan(cell, BoldItalic(Top(cell.stack), <<"_", "_", "_">>))
    /\ UNCHANGED <<split, table, gate>>

ScanBoldUnderscore ==
    /\ cell.pc = "scan"
    /\ cell.rule = "bold_underscore"
    /\ cell' = Scan(cell, Bold(Top(cell.stack), <<"_", "_">>))
    /\ UNCHANGED <<split, table, gate>>

ScanBoldUnderscoreUnmatched ==
    /\ cell.pc = "scan"
    /\ cell.rule = "bold_underscore_unmatched"
    /\ cell' = Scan(cell, <<Literal(Top(cell.stack))>>)
    /\ UNCHANGED <<split, table, gate>>

ScanItalicStar ==
    /\ cell.pc = "scan"
    /\ cell.rule = "italic_star"
    /\ cell' = Scan(cell, Italic(Top(cell.stack), "*"))
    /\ UNCHANGED <<split, table, gate>>

ScanItalicStarUnmatched ==
    /\ cell.pc = "scan"
    /\ cell.rule = "italic_star_unmatched"
    /\ cell' = Scan(cell, <<Literal(Top(cell.stack))>>)
    /\ UNCHANGED <<split, table, gate>>

ScanItalicUnderscore ==
    /\ cell.pc = "scan"
    /\ cell.rule = "italic_underscore"
    /\ cell' = Scan(cell, Italic(Top(cell.stack), "_"))
    /\ UNCHANGED <<split, table, gate>>

ScanItalicUnderscoreUnmatched ==
    /\ cell.pc = "scan"
    /\ cell.rule = "italic_underscore_unmatched"
    /\ cell' = Scan(cell, <<Literal(Top(cell.stack))>>)
    /\ UNCHANGED <<split, table, gate>>

ScanLink ==
    /\ cell.pc = "scan"
    /\ cell.rule = "link"
    /\ cell' = Scan(cell, Link(Top(cell.stack)))
    /\ UNCHANGED <<split, table, gate>>

ScanChar ==
    /\ cell.pc = "scan"
    /\ cell.rule = "char"
    /\ cell' = Scan(cell, <<Literal(Top(cell.stack))>>)
    /\ UNCHANGED <<split, table, gate>>

SegmentsReturn ==
    /\ cell.pc = "scan"
    /\ cell.rule = "return"
    /\ cell' = Continue(cell, ScanReturn(cell.stack), <<>>)
    /\ UNCHANGED <<split, table, gate>>

ParseReturn ==
    /\ cell.pc = "scan"
    /\ cell.rule = "end"
    /\ cell' = ParseEnd(cell)
    /\ UNCHANGED <<split, table, gate>>

NextCell ==
    \/ ParseCodeBlock
    \/ ParseInline
    \/ ScanEscape
    \/ ScanCode
    \/ ScanStrike
    \/ ScanBoldItalicStar
    \/ ScanBoldStar
    \/ ScanBoldStarUnmatched
    \/ ScanBoldItalicUnderscore
    \/ ScanBoldUnderscore
    \/ ScanBoldUnderscoreUnmatched
    \/ ScanItalicStar
    \/ ScanItalicStarUnmatched
    \/ ScanItalicUnderscore
    \/ ScanItalicUnderscoreUnmatched
    \/ ScanLink
    \/ ScanChar
    \/ SegmentsReturn
    \/ ParseReturn

SpecCell == InitCell /\ [][NextCell]_vars

----------------------------------------------------------------------------
(* The hotkey gate: _hotkey_trigger_async (main.py), the same code as      *)
(* DebounceManager.trigger_async (domains/hotkey/debounce.py).             *)
(*                                                                         *)
(* gate is the record of                                                   *)
(*   clock      the reading time.time() gives, in ticks;                   *)
(*   last_fire, running                                                    *)
(*              the two entries of _state the gate uses;                   *)
(*   hook       the keyboard hook thread, the only caller: pc is "idle",   *)
(*              "entered" (now is read), "fired" (last_fire is written),   *)
(*              "passed" (running was read as false) or "spawned" (the     *)
(*              thread is started, the call has not returned), now is its  *)
(*              local variable;                                            *)
(*   workers    the worker threads started so far, each with pc "started"  *)
(*              (the thread runs, running is not set yet), "callback",     *)
(*              "finally" (the callback returned or raised) or "done",     *)
(*              and raised, whether the callback raised;                   *)
(*   calls      the number of calls of the gate so far.                    *)

\* FIRE_DEBOUNCE_SEC = 1
FIRE_DEBOUNCE_SEC == 1

\* the debounce window in ticks of the clock
DebounceTicks == FIRE_DEBOUNCE_SEC * TicksPerSec

\* the state at program start: "running": False, "last_fire": 0.0, and a
\* clock that every reading of time.time() finds past the debounce window
GateStart ==
    [clock |-> DebounceTicks, last_fire |-> 0, running |-> FALSE,
     hook |-> [pc |-> "idle", now |-> 0], workers |-> <<>>, calls |-> 0]

\* now = time.time()
TriggerEnter(g) ==
    [g EXCEPT !.hook = [pc |-> "entered", now |-> g.clock], !.calls = @ + 1]

\* now - last_fire < FIRE_DEBOUNCE_SEC
InDebounceWindow(g) == g.hook.now - g.last_fire < DebounceTicks

\* a gate that restarts the debounce window at every press it ignores
TriggerReturn_RestartsWindow(g) ==
    [g EXCEPT !.last_fire = g.hook.now, !.hook = [pc |-> "idle", now |-> 0]]

\* return
TriggerReturn(g) == [g EXCEPT !.hook = [pc |-> "idle", now |-> 0]]

\* _state["last_fire"] = now
TriggerRecord(g) == [g EXCEPT !.last_fire = g.hook.now, !.hook.pc = "fired"]

\* threading.Thread(target=worker, daemon=True).start()
StartWorker(g) ==
    [g EXCEPT !.workers = Append(@, [pc |-> "started", raised |-> FALSE]),
              !.hook.pc = "spawned"]

\* if _state.get("running", False): found false
TriggerPass(g) == [g EXCEPT !.hook.pc = "passed"]

\* worker: _state["running"] = True
WorkerBegin(g, w) == [g EXCEPT !.running = TRUE, !.workers[w].pc = "callback"]

\* a worker without the finally clause: a callback that raises ends the thread
WorkerCallback_RaiseEndsThread(g, w, raised) ==
    [g EXCEPT !.workers[w] = [pc |-> IF raised THEN "done" ELSE "finally", raised |-> raised]]

\* worker: the callback returns, or raises and the except clause logs it
WorkerCallback(g, w, raised) ==
    [g EXCEPT !.workers[w] = [pc |-> "finally", raised |-> raised]]

\* worker: finally: _state["running"] = False
WorkerEnd(g, w) == [g EXCEPT !.running = FALSE, !.workers[w].pc = "done"]

InitGate ==
    /\ gate = GateStart
    /\ split = SplitIdle
    /\ table = TableIdle
    /\ cell = CellIdle

ClockTick ==
    /\ gate.clock < MaxTime
    /\ gate' = [gate EXCEPT !.clock = @ + 1]
    /\ UNCHANGED <<split, table, cell>>

TriggerCall ==
    /\ gate.hook.pc = "idle"
    /\ gate.calls < MaxTriggers
    /\ gate' = TriggerEnter(gate)
    /\ UNCHANGED <<split, table, cell>>

TriggerDebounced ==
    /\ gate.hook.pc = "entered"
    /\ InDebounceWindow(gate)
    /\ gate' = TriggerReturn(gate)
    /\ UNCHANGED <<split, table, cell>>

TriggerFire ==
    /\ gate.hook.pc = "entered"
    /\ ~InDebounceWindow(gate)
    /\ gate' = TriggerRecord(gate)
    /\ UNCHANGED <<split, table, cell>>

TriggerBusy ==
    /\ gate.hook.pc = "fired"
    /\ gate.running
    /\ gate' = TriggerReturn(gate)
    /\ UNCHANGED <<split, table, cell>>

TriggerNotBusy ==
    /\ gate.hook.pc = "fired"
    /\ ~gate.running
    /\ gate' = TriggerPass(gate)
    /\ UNCHANGED <<split, table, cell>>

TriggerStart ==
    /\ gate.hook.pc = "passed"
    /\ gate' = StartWorker(gate)
    /\ UNCHANGED <<split, table, cell>>

TriggerEnd ==
    /\ gate.hook.pc = "spawned"
    /\ gate' = TriggerReturn(gate)
    /\ UNCHANGED <<split, table, cell>>

WorkerSetRunning ==
    /\ \E w \in 1..Len(gate.workers) :
          /\ gate.workers[w].pc = "started"
          /\ gate' = WorkerBegin(gate, w)
    /\ UNCHANGED <<split, table, cell>>

WorkerCallbackReturns ==
    /\ \E w \in 1..Len(gate.workers) :
          /\ gate.workers[w].pc = "callback"
          /\ gate' = WorkerCallback(gate, w, FALSE)
    /\ UNCHANGED <<split, table, cell>>

WorkerCallbackRaises ==
    /\ \E w \in 1..Len(gate.workers) :
          /\ gate.workers[w].pc = "callback"
          /\ gate' = WorkerCallback(gate, w, TRUE)
    /\ UNCHANGED <<split, table, cell>>

WorkerFinally ==
    /\ \E w \in 1..Len(gate.workers) :
          /\ gate.workers[w].pc = "finally"
          /\ gate' = WorkerEnd(gate, w)
    /\ UNCHANGED <<split, table, cell>>

NextGate ==
    \/ ClockTick
    \/ TriggerCall
    \/ TriggerDebounced
    \/ TriggerFire
    \/ TriggerBusy
    \/ TriggerNotBusy
    \/ TriggerStart
    \/ TriggerEnd
    \/ WorkerSetRunning
    \/ WorkerCallbackReturns
    \/ WorkerCallbackRaises
    \/ WorkerFinally

SpecGate == InitGate /\ [][NextGate]_vars

----------------------------------------------------------------------------
(* Claims about the cell splitter (checked under SpecSplit).               *)

\* the number of consecutive backslashes of line that end at index j
RECURSIVE BackslashRun(_, _)
BackslashRun(line, j) ==
    IF j < 0 \/ At(line, j) # "\\" THEN 0 ELSE 1 + BackslashRun(line, j - 1)

\* line[j] is a backslash that no preceding backslash escapes
UnescapedBackslashAt(line, j) == j >= 0 /\ BackslashRun(line, j) % 2 = 1

\* the splitter the claim describes: a pipe is literal exactly when an
\* unescaped backslash immediately precedes it
RECURSIVE ClaimedSplit(_, _, _, _)
ClaimedSplit(line, i, cells, cur) ==
    IF i >= Len(line)
    THEN IF cur # <<>> \/ cells # <<>> THEN Append(cells, Strip(cur)) ELSE cells
    ELSE IF At(line, i) = "|" /\ UnescapedBackslashAt(line, i - 1)
         THEN ClaimedSplit(line, i + 1, cells, [cur EXCEPT ![Len(cur)] = "|"])
    ELSE IF At(line, i) = "|"
         THEN ClaimedSplit(line, i + 1, Append(cells, Strip(cur)), <<>>)
    ELSE ClaimedSplit(line, i + 1, cells, Append(cur, At(line, i)))

\* C3: a pipe is kept as a literal pipe (its backslash removed) exactly when
\* it is immediately preceded by an unescaped backslash; every other pipe,
\* also one preceded by an escaped backslash, ends the current cell.
C3_LiteralPipeIffUnescapedBackslash ==
    split.pc = "done" => split.cells = ClaimedSplit(split.line, 0, <<>>, <<>>)

\* C4: the splitter is total: it never indexes an empty cell buffer, the
\* scan index stays within the line, the call returns, and every cell it
\* has returned or collected carries no leading or trailing whitespace.
C4_SplitTotalAndTrimmed ==
    /\ split.pc \in {"loop", "done"}
    /\ split.i <= Len(split.line)
    /\ split_table_cells(split.line).pc = "done"
    /\ \A k \in 1..Len(split.cells) : Strip(split.cells[k]) = split.cells[k]

\* a returned line with an escaped pipe, surrounding blanks and two cells
C4_Witness ==
    /\ split.pc = "done"
    /\ \E i \in 0..(Len(split.line) - 1) : IsEscapedPipe(split.line, i)
    /\ Head(split.line) = " "
    /\ Len(split.cells) >= 2

----------------------------------------------------------------------------
(* Claims about the table parser (checked under SpecTable).                *)

\* the lines of the raw text, each stripped
RawLines(md_text) ==
    LET ls == SplitNL(md_text) IN [k \in 1..Len(ls) |-> Strip(ls[k])]

\* a non-blank line without any pipe
IsNonTableLine(line) == line # <<>> /\ ~IsTableLine(line)

\* the lines up to, and without, the first non-blank line that has no pipe
ScannedLines(ls) ==
    LET stops == {k \in 1..Len(ls) : IsNonTableLine(ls[k])}
    IN  IF stops = {} THEN ls
        ELSE SubSeq(ls, 1, (CHOOSE k \in stops : \A j \in stops : k <= j) - 1)

\* a table line that is not a separator row and keeps a cell without its frame
IsDataLine(line) ==
    /\ IsTableLine(line)
    /\ ~IsSeparatorRow(line)
    /\ FrameStrip(split_table_cells(line).cells) # <<>>

\* the rows of the data lines among ls, in order: the trimmed cells of each
RECURSIVE RowsOf(_)
RowsOf(ls) ==
    IF ls = <<>> THEN <<>>
    ELSE (IF IsDataLine(Head(ls))
          THEN <<FrameStrip(split_table_cells(Head(ls)).cells)>> ELSE <<>>)
         \o RowsOf(Tail(ls))

TableAccepted == table.pc = "done" /\ table.returned = "table"

\* C1 as stated: for an accepted text the returned rows are, in input order,
\* exactly the non-separator table lines (lines holding a pipe) that keep a
\* cell after frame stripping, each the trimmed cells of its own line.
C1_RowsAreAllDataLines ==
    TableAccepted => table.table_data = RowsOf(RawLines(table.md_text))

\* C1 amended: ... exactly those among the lines that precede the first
\* non-blank line without a pipe, where the scan of the table stops.
C1_RowsAreScannedDataLines ==
    TableAccepted => table.table_data = RowsOf(ScannedLines(RawLines(table.md_text)))

\* an accepted text with a row above the separator and a pipe line after the
\* line that ended the table
C1_Witness ==
    /\ TableAccepted
    /\ Len(table.table_data) < Len(RowsOf(RawLines(table.md_text)))
    /\ ~IsSeparatorRow(RawLines(table.md_text)[1])

\* C2: the parser never raises and always returns; it returns None when the
\* text has fewer than two non-blank lines or no separator row; a returned
\* table was produced after a separator row was seen, is non-empty and has
\* only non-empty rows.
C2_NoneOrWellFormedTable ==
    LET ls == RawLines(table.md_text)
        nonblank == {k \in 1..Len(ls) : ls[k] # <<>>}
        seps == {k \in 1..Len(ls) : IsSeparatorRow(ls[k])}
    IN  /\ table.pc \in {"start", "loop", "after", "done"}
        /\ table.pc = "start" => parse_markdown_table(table.md_text).pc = "done"
        /\ table.pc = "done" => table.returned \in {"None", "table"}
        /\ (table.pc = "done" /\ (Cardinality(nonblank) < 2 \/ seps = {}))
              => table.returned = "None"
        /\ TableAccepted =>
              /\ table.separator_found
              /\ table.table_data # <<>>
              /\ \A r \in 1..Len(table.table_data) : table.table_data[r] # <<>>

\* a returned table of two rows or more
C2_Witness == TableAccepted /\ Len(table.table_data) >= 2

----------------------------------------------------------------------------
(* Claims about CellFormat.parse (checked under SpecCell).                 *)

\* what is left to scan: the characters every call on the stack has not
\* passed yet, and one for each call that has not returned
RECURSIVE Remaining(_)
Remaining(stack) ==
    IF stack = <<>> THEN 0
    ELSE Remaining(SubSeq(stack, 1, Len(stack) - 1))
           + (Len(Top(stack).text) - Top(stack).i) + 1

\* every call on the stack is within its text
ScanInRange ==
    \A k \in 1..Len(cell.stack) : cell.stack[k].i \in 0..Len(cell.stack[k].text)

\* C5: parse is total.  Every iteration of the loop of _parse_segments moves
\* the index of the call forward and stays within the text, every recursive
\* call is made on a text strictly shorter than the caller's, every return
\* pops one call, what is left to scan shrinks at each step, and a call of
\* parse that has started always has a next step until it has returned.
C5_ScanTerminates ==
    [][ cell.pc = "scan" =>
          LET n == Len(cell.stack)
              f == Top(cell.stack)
          IN  /\ ScanInRange /\ ScanInRange'
              /\ cell.rule = NextRule(cell.stack)
              /\ cell'.pc \in {"scan", "done"}
              /\ cell'.pc = "scan" => Remaining(cell'.stack) < Remaining(cell.stack)
              /\ cell'.pc = "done" <=> cell.rule = "end"
              /\ cell.rule \notin {"return", "end"} =>
                   /\ Len(cell'.stack) \in {n, n + 1}
                   /\ cell'.stack[n].i > f.i
                   /\ Len(cell'.stack) = n + 1 =>
                        Len(cell'.stack[n + 1].text) < Len(f.text)
              /\ cell.rule = "return" => Len(cell'.stack) = n - 1 ]_vars

\* parse has returned for a text of a stray bracket, an unterminated code
\* span and a trailing backslash, all three emitted as literal text
C5_Witness ==
    /\ cell.pc = "done"
    /\ cell.text = <<"[", Backtick, "\\">>
    /\ cell.returned = cell.text

\* C6: after parse returns, on the code-block path and on the inline path,
\* clean_text is the concatenation of the texts of the segments in order,
\* and parse returns clean_text.
C6_CleanTextIsJoinedSegments ==
    cell.pc = "done" =>
        /\ cell.clean_text = JoinSegments(cell.segments)
        /\ cell.returned = cell.clean_text
        /\ cell.is_code_block => Len(cell.segments) = 1

\* a code block whose text was stripped of surrounding blanks
C6_Witness ==
    /\ cell.pc = "done"
    /\ cell.is_code_block
    /\ cell.clean_text # <<>>
    /\ Len(cell.clean_text) < Len(UnwrapTag(cell.scanned, PreOpen, PreClose))

\* the characters that delimit inline markup
DelimiterChars == {"*", "_", "~", Backtick, "[", "]", "(", ")"}

\* s holds a <br> tag, or an opening or closing <pre> or <code> tag
HoldsTag(s) ==
    \/ \E i \in 0..(Len(s) - 1) : BrMatchEnd(s, i) # -1
    \/ \E t \in {PreOpen, PreClose, CodeOpen, CodeClose} : Contains(Lower(s), t)

\* C7: for every parsed cell clean_text holds no <br>, <pre> or <code> tag,
\* and holds a delimiter character only where the input had it behind an
\* escaping backslash.
C7_OnlyEscapedDelimiters ==
    cell.pc = "done" =>
        /\ ~HoldsTag(cell.clean_text)
        /\ \A k \in 1..Len(cell.clean_text) :
              cell.clean_text[k] \in DelimiterChars =>
                  /\ ~cell.is_code_block
                  /\ cell.origin[k].how = "escape"

\* a span opens at text[i] of the call f: its opening delimiter is there,
\* its style is not in force yet, and its closing delimiter follows
CodeOpens(f) ==
    /\ At(f.text, f.i) = Backtick
    /\ \E e \in (f.i + 1)..(Len(f.text) - 1) : At(f.text, e) = Backtick

StrikeOpens(f) ==
    /\ MatchAt(f.text, f.i, <<"~", "~">>) /\ ~f.strikethrough
    /\ \E e \in (f.i + 2)..(Len(f.text) - 2) : MatchAt(f.text, e, <<"~", "~">>)

TripleOpens(f, d) ==
    /\ MatchAt(f.text, f.i, <<d, d, d>>) /\ ~f.bold /\ ~f.italic
    /\ \E e \in (f.i + 3)..(Len(f.text) - 3) : MatchAt(f.text, e, <<d, d, d>>)

DoubleOpens(f, d) ==
    /\ MatchAt(f.text, f.i, <<d, d>>) /\ ~f.bold
    /\ \E e \in (f.i + 2)..(Len(f.text) - 2) : MatchAt(f.text, e, <<d, d>>)

SingleOpens(f, d) ==
    /\ At(f.text, f.i) = d /\ ~MatchAt(f.text, f.i, <<d, d>>)
    /\ \E e \in (f.i + 1)..(Len(f.text) - 1) :
          At(f.text, e) = d /\ ~MatchAt(f.text, e, <<d, d>>)

LinkOpens(f) ==
    /\ At(f.text, f.i) = "["
    /\ \E b \in (f.i + 1)..(Len(f.text) - 2) :
          /\ At(f.text, b) = "]" /\ At(f.text, b + 1) = "("
          /\ \A j \in (f.i + 1)..(b - 1) : At(f.text, j) # "]"
          /\ \E e \in (b + 2)..(Len(f.text) - 1) : At(f.text, e) = ")"

SpanOpens(f) ==
    \/ CodeOpens(f) \/ StrikeOpens(f) \/ LinkOpens(f)
    \/ \E d \in {"*", "_"} : TripleOpens(f, d) \/ DoubleOpens(f, d) \/ SingleOpens(f, d)

LiteralRules ==
    {"char", "bold_star_unmatched", "bold_underscore_unmatched",
     "italic_star_unmatched", "italic_underscore_unmatched"}

\* the characters of the markup syntax: the delimiters, the escaping
\* backslash and the brackets of the tags
MarkupChars == DelimiterChars \cup {"\\", "<", ">"}

NoMarkup(text) == \A k \in 1..Len(text) : text[k] \notin MarkupChars

PlainSegment(text) == TextSegment(text, FALSE, FALSE, FALSE, FALSE, NoUrl)

\* C8 as stated: every text without markup characters gives exactly one
\* segment, equal to the text, with no style and no hyperlink.
C8_PlainTextOneSegment ==
    (cell.pc = "done" /\ NoMarkup(cell.text)) =>
        cell.segments = <<PlainSegment(cell.text)>>

\* C8, amended: every non-empty text without markup characters gives exactly
\* one segment, equal to the text, with no style and no hyperlink; the empty
\* text gives no segment.
C8_NonEmptyPlainTextOneSegment ==
    (cell.pc = "done" /\ NoMarkup(cell.text)) =>
        /\ cell.text # <<>> => cell.segments = <<PlainSegment(cell.text)>>
        /\ cell.text = <<>> => cell.segments = <<>>
        /\ cell.clean_text = cell.text
        /\ ~cell.is_code_block

\* a plain text of three characters has returned as one segment
C8_Witness ==
    /\ cell.pc = "done"
    /\ cell.text = <<"a", " ", "a">>
    /\ Len(cell.segments) = 1

\* the indices in text of the delimiters the branch r of the call f takes
\* as the opening and the closing delimiter of a span
DelimitersUsed(f, r) ==
    CASE r = "code" -> {f.i, Find(f.text, <<Backtick>>, f.i + 1)}
      [] r = "strike" -> {f.i, Find(f.text, <<"~", "~">>, f.i + 2)}
      [] r = "bold_italic_star" -> {f.i, Find(f.text, <<"*", "*", "*">>, f.i + 3)}
      [] r = "bold_star" -> {f.i, FindPair(f.text, <<"*", "*">>, f.i + 2)}
      [] r = "bold_italic_underscore" -> {f.i, Find(f.text, <<"_", "_", "_">>, f.i + 3)}
      [] r = "bold_underscore" -> {f.i, FindPair(f.text, <<"_", "_">>, f.i + 2)}
      [] r = "italic_star" -> {f.i, FindSingle(f.text, "*", f.i + 1)}
      [] r = "italic_underscore" -> {f.i, FindSingle(f.text, "_", f.i + 1)}
      [] r = "link" -> {f.i, LinkBracket(f.text, f.i), LinkParen(f.text, f.i)}
      [] OTHER -> {}

\* the text of the specification's example: \*literal\*
EscapedStars == <<"\\", "*", "l", "i", "t", "e", "r", "a", "l", "\\", "*">>

\* C9: the character behind an escaping backslash is emitted in place of
\* the two (the escape branch is taken at every backslash that has a
\* character behind it and that no backslash escapes), and no branch takes
\* such a character as the opening or the closing delimiter of a span;
\* \*literal\* gives *literal*.
C9_EscapedNeverDelimiter ==
    /\ (cell.pc = "scan" /\ cell.rule \notin {"return", "end"}) =>
          LET f == Top(cell.stack)
          IN  /\ (UnescapedBackslashAt(f.text, f.i) /\ f.i + 1 < Len(f.text))
                    => cell.rule = "escape"
              /\ \A p \in DelimitersUsed(f, cell.rule) :
                    ~UnescapedBackslashAt(f.text, p - 1)
    /\ (cell.pc = "done" /\ cell.text = EscapedStars) =>
          cell.clean_text = <<"*", "l", "i", "t", "e", "r", "a", "l", "*">>

\* C10: at a backtick with a later backtick in the text of the call, the
\* pending characters are flushed, the characters between the two backticks
\* become one segment with is_code set and bold, italic and strikethrough
\* unset whatever the style of the call, no call is made for them, and the
\* scan resumes behind the closing backtick; at a backtick with no later
\* backtick the backtick is appended to the pending characters.
C10_CodeSpanInert ==
    [][ (cell.pc = "scan" /\ Top(cell.stack).i < Len(Top(cell.stack).text)
           /\ At(Top(cell.stack).text, Top(cell.stack).i) = Backtick) =>
          LET n == Len(cell.stack)
              f == Top(cell.stack)
              g == cell'.stack[n]
              later == {e \in (f.i + 1)..(Len(f.text) - 1) : At(f.text, e) = Backtick}
              flushed == IF f.current_text = <<>> THEN f.segments
                         ELSE Append(f.segments,
                                     TextSegment(f.current_text, f.bold, f.italic,
                                                 f.strikethrough, FALSE, NoUrl))
          IN  /\ Len(cell'.stack) = n
              /\ later # {} =>
                   LET end == CHOOSE e \in later : \A e2 \in later : e <= e2
                   IN  /\ g.segments =
                             Append(flushed,
                                    [text |-> Slice(f.text, f.i + 1, end), bold |-> FALSE,
                                     italic |-> FALSE, strikethrough |-> FALSE,
                                     is_code |-> TRUE, hyperlink_url |-> NoUrl])
                       /\ g.current_text = <<>>
                       /\ g.i = end + 1
              /\ later = {} =>
                   /\ g.segments = f.segments
                   /\ g.current_text = Append(f.current_text, Backtick)
                   /\ g.i = f.i + 1 ]_vars

\* a code span inside an italic span has returned as one code segment
\* that is not italic
C10_Witness ==
    /\ cell.pc = "done"
    /\ cell.text = <<"*", Backtick, "a", Backtick, "*">>
    /\ cell.segments = <<CodeSegment(<<"a">>)>>

\* the text of the specification's example: **a *b* c**
BoldAroundItalic == <<"*", "*", "a", " ", "*", "b", "*", " ", "c", "*", "*">>

\* the segments of the call f once its pending characters are flushed
Flushed(f) ==
    IF f.current_text = <<>> THEN f.segments
    ELSE Append(f.segments, TextSegment(f.current_text, f.bold, f.italic,
                                        f.strikethrough, FALSE, NoUrl))

\* C11: a single * or _ with a later single occurrence of itself opens an
\* italic span whatever the bold of the call; the characters before it are
\* flushed as a segment of the style of the call, the content between the
\* two delimiters is parsed by a call that keeps the bold and the
\* strikethrough of the caller and sets italic, and the caller resumes
\* behind the closing delimiter; **a *b* c** gives (a , bold),
\* (b, bold + italic), ( c, bold).
C11_ItalicNestsInBold ==
    [][ cell.pc = "scan" =>
          LET n == Len(cell.stack)
              f == Top(cell.stack)
          IN  /\ \A d \in {"*", "_"} :
                    (f.i < Len(f.text) /\ SingleOpens(f, d)) =>
                        /\ cell.rule = (IF d = "*" THEN "italic_star" ELSE "italic_underscore")
                        /\ Len(cell'.stack) = n + 1
                        /\ LET end == CHOOSE e \in (f.i + 1)..(Len(f.text) - 1) :
                                         /\ At(f.text, e) = d /\ ~MatchAt(f.text, e, <<d, d>>)
                                         /\ \A e2 \in (f.i + 1)..(e - 1) :
                                               ~(At(f.text, e2) = d /\ ~MatchAt(f.text, e2, <<d, d>>))
                               g == cell'.stack[n + 1]
                               caller == cell'.stack[n]
                           IN  /\ g.text = Slice(f.text, f.i + 1, end)
                               /\ g.bold = f.bold /\ g.italic /\ g.strikethrough = f.strikethrough
                               /\ g.i = 0 /\ g.segments = <<>> /\ g.current_text = <<>>
                               /\ caller.segments = Flushed(f)
                               /\ caller.i = end + 1
              /\ (cell'.pc = "done" /\ cell'.text = BoldAroundItalic) =>
                    cell'.segments =
                       << TextSegment(<<"a", " ">>, TRUE, FALSE, FALSE, FALSE, NoUrl),
                          TextSegment(<<"b">>, TRUE, TRUE, FALSE, FALSE, NoUrl),
                          TextSegment(<<" ", "c">>, TRUE, FALSE, FALSE, FALSE, NoUrl) >> ]_vars

\* the call for the italic content b runs inside the call for the bold
\* content, the bold segment before it already emitted
C11_Witness ==
    /\ cell.pc = "scan"
    /\ Len(cell.stack) = 3
    /\ cell.stack[2].bold /\ ~cell.stack[2].italic
    /\ cell.stack[2].segments = <<TextSegment(<<"a", " ">>, TRUE, FALSE, FALSE, FALSE, NoUrl)>>
    /\ cell.stack[3].bold /\ cell.stack[3].italic
    /\ cell.stack[3].text = <<"b">>

\* the text of the specification's example: *hello
UnmatchedStar == <<"*", "h", "e", "l", "l", "o">>

\* C12: a single * or _ (not followed by itself) with no later single
\* occurrence of itself in the text of the call is appended to the pending
\* characters: nothing is flushed, no call is made, the style of the call
\* is kept and the scan moves on by one; *hello gives one plain segment.
C12_UnmatchedItalicIsLiteral ==
    [][ cell.pc = "scan" =>
          LET n == Len(cell.stack)
              f == Top(cell.stack)
              g == cell'.stack[n]
          IN  /\ \A d \in {"*", "_"} :
                    (f.i < Len(f.text) /\ IsSingle(f.text, f.i, d) /\ ~SingleOpens(f, d)) =>
                        /\ cell.rule = (IF d = "*" THEN "italic_star_unmatched"
                                        ELSE "italic_underscore_unmatched")
                        /\ Len(cell'.stack) = n
                        /\ g = [f EXCEPT !.current_text = Append(f.current_text, d),
                                         !.i = f.i + 1]
              /\ (cell'.pc = "done" /\ cell'.text = UnmatchedStar) =>
                    cell'.segments = <<PlainSegment(UnmatchedStar)>> ]_vars

\* an unmatched star between two letters has returned inside the one plain
\* segment of the text
C12_Witness ==
    /\ cell.pc = "done"
    /\ cell.text = <<"a", "*", "a">>
    /\ cell.segments = <<PlainSegment(<<"a", "*", "a">>)>>

\* the text of the specification's example: [**bold link**](http://x)
BoldLink ==
    <<"[", "*", "*", "b", "o", "l", "d", " ", "l", "i", "n", "k", "*", "*", "]",
      "(", "h", "t", "t", "p", ":", "/", "/", "x", ")">>

\* a link of two segments between two letters: x[a*b*](u)y
LinkOfTwo == <<"x", "[", "a", "*", "b", "*", "]", "(", "u", ")", "y">>

\* C13: at a [ whose first later ] is followed by ( and a later ), the
\* pending characters are flushed without a url, the text between [ and ]
\* is parsed by a call of the style of the caller, and the caller resumes
\* behind the ), so that no character of the url is scanned; when the call
\* returns every segment it produced gets the url and the segments the
\* caller already had are unchanged; at a [ with no such ] ( ) the [ is
\* appended to the pending characters.  [**bold link**](http://x) gives
\* one bold segment bold link with the url http://x.
C13_LinkSegmentsCarryUrl ==
    [][ cell.pc = "scan" =>
          LET n == Len(cell.stack)
              f == Top(cell.stack)
          IN  /\ (f.i < Len(f.text) /\ LinkOpens(f)) =>
                    LET b == CHOOSE j \in (f.i + 1)..(Len(f.text) - 1) :
                                /\ At(f.text, j) = "]"
                                /\ \A k \in (f.i + 1)..(j - 1) : At(f.text, k) # "]"
                        p == CHOOSE j \in (b + 2)..(Len(f.text) - 1) :
                                /\ At(f.text, j) = ")"
                                /\ \A k \in (b + 2)..(j - 1) : At(f.text, k) # ")"
                        g == cell'.stack[n + 1]
                        caller == cell'.stack[n]
                    IN  /\ cell.rule = "link"
                        /\ Len(cell'.stack) = n + 1
                        /\ g.text = Slice(f.text, f.i + 1, b)
                        /\ g.bold = f.bold /\ g.italic = f.italic
                        /\ g.strikethrough = f.strikethrough
                        /\ g.i = 0 /\ g.segments = <<>> /\ g.current_text = <<>>
                        /\ caller.segments = Flushed(f)
                        /\ caller.link = <<Slice(f.text, b + 2, p)>>
                        /\ caller.i = p + 1
              /\ (f.i < Len(f.text) /\ At(f.text, f.i) = "[" /\ ~LinkOpens(f)) =>
                    /\ cell.rule = "char"
                    /\ cell'.stack[n] = [f EXCEPT !.current_text = Append(f.current_text, "["),
                                                  !.i = f.i + 1]
              /\ cell.rule = "return" =>
                    LET caller == cell.stack[n - 1]
                        got == Flushed(f)
                        after == cell'.stack[n - 1].segments
                    IN  /\ Len(after) = Len(caller.segments) + Len(got)
                        /\ SubSeq(after, 1, Len(caller.segments)) = caller.segments
                        /\ \A k \in 1..Len(got) :
                              after[Len(caller.segments) + k] =
                                 IF caller.link = NoUrl THEN got[k]
                                 ELSE [got[k] EXCEPT !.hyperlink_url = caller.link]
                        /\ cell'.stack[n - 1].link = NoUrl
              /\ (cell'.pc = "done" /\ cell'.text = BoldLink) =>
                    cell'.segments =
                       <<TextSegment(<<"b", "o", "l", "d", " ", "l", "i", "n", "k">>, TRUE, FALSE,
                                     FALSE, FALSE, <<<<"h", "t", "t", "p", ":", "/", "/", "x">>>>)>>
              /\ (cell'.pc = "done" /\ cell'.text = LinkOfTwo) =>
                    /\ cell'.clean_text = <<"x", "a", "b", "y">>
                    /\ cell'.segments =
                          << PlainSegment(<<"x">>),
                             TextSegment(<<"a">>, FALSE, FALSE, FALSE, FALSE, <<<<"u">>>>),
                             TextSegment(<<"b">>, FALSE, TRUE, FALSE, FALSE, <<<<"u">>>>),
                             PlainSegment(<<"y">>) >> ]_vars

\* the call made for the text of a link has returned two segments, both
\* with the url, into a caller that already had a segment without url
C13_Witness ==
    /\ cell.pc = "scan"
    /\ Len(cell.stack) = 1
    /\ Len(cell.stack[1].segments) = 3
    /\ cell.stack[1].segments[1].hyperlink_url = NoUrl
    /\ cell.stack[1].segments[2].hyperlink_url = <<<<"u">>>>
    /\ cell.stack[1].segments[3].hyperlink_url = <<<<"u">>>>

\* the text of the specification's example: <pre>line1<br>line2</pre>
PreExample ==
    <<"<", "p", "r", "e", ">", "l", "i", "n", "e", "1", "<", "b", "r", ">",
      "l", "i", "n", "e", "2", "<", "/", "p", "r", "e", ">">>

\* text is x open y close z, open and close in any letter case, where x and
\* z hold no tag bracket and y holds none outside its <br> tags
IsOneElement(text, open, close) ==
    LET i == Find(Lower(text), open, 0)
        e == Find(Lower(text), close, i + Len(open))
    IN  /\ i # -1 /\ e # -1
        /\ ~Contains(Slice(text, 0, i), <<"<">>)
        /\ ~Contains(ReplaceBr(Slice(text, i + Len(open), e)), <<"<">>)
        /\ ~Contains(SliceFrom(text, e + Len(close)), <<"<">>)

\* the content of such a text with the two tags removed, each <br> of the
\* element a newline
ElementContent(text, open, close) ==
    LET i == Find(Lower(text), open, 0)
        e == Find(Lower(text), close, i + Len(open))
    IN  Slice(text, 0, i) \o ReplaceBr(Slice(text, i + Len(open), e))
          \o SliceFrom(text, e + Len(close))

\* text holds an opening tag with its closing tag behind it, in any letter case
HoldsElement(text, open, close) ==
    \E i \in 0..(Len(text) - Len(open)) :
        /\ Lower(Slice(text, i, i + Len(open))) = open
        /\ Contains(Lower(SliceFrom(text, i + Len(open))), close)

\* C14: a text holding a <pre>...</pre> or <code>...</code> element, in any
\* letter case, is a code block: is_code_block is set, no call of
\* _parse_segments is made, and the only segment is a code segment with no
\* other flag, whose text is stripped of surrounding whitespace and holds
\* none of the tags <pre>, </pre>, <code>, </code> and no <br>; where the
\* element is the only markup of the text, the segment text is the content
\* with the two tags removed, each <br> a newline, stripped.
\* <pre>line1<br>line2</pre> gives is_code_block, has_newline and the code
\* segment line1 newline line2.
C14_CodeBlockIsOneCodeSegment ==
    cell.pc = "done" =>
        /\ \A tags \in {<<PreOpen, PreClose>>, <<CodeOpen, CodeClose>>} :
              /\ HoldsElement(cell.text, tags[1], tags[2]) =>
                    /\ cell.is_code_block
                    /\ cell.stack = <<>> /\ cell.origin = <<>>
                    /\ cell.segments = <<CodeSegment(cell.clean_text)>>
                    /\ cell.clean_text = Strip(cell.clean_text)
                    /\ ~HoldsTag(cell.clean_text)
              /\ IsOneElement(cell.text, tags[1], tags[2]) =>
                    cell.clean_text = Strip(ElementContent(cell.text, tags[1], tags[2]))
        /\ cell.text = PreExample =>
              /\ cell.is_code_block /\ cell.has_newline
              /\ cell.segments =
                    <<CodeSegment(<<"l", "i", "n", "e", "1", "\n", "l", "i", "n", "e", "2">>)>>

\* text holds an HTML line break: <br, in any letter case, then whitespace,
\* then an optional /, then >
HoldsLineBreak(text) ==
    \E i \in 0..(Len(text) - 4) :
        /\ Lower(Slice(text, i, i + 3)) = <<"<", "b", "r">>
        /\ \E j \in (i + 3)..(Len(text) - 1) :
              /\ At(text, j) = ">"
              /\ \A k \in (i + 3)..(j - 1) :
                    IsSpace(At(text, k)) \/ (k = j - 1 /\ At(text, k) = "/")

\* a link whose url is a line break: [a](<BR/>)
LinkToLineBreak == <<"[", "a", "]", "(", "<", "B", "R", "/", ">", ")">>

\* C15: once parse has read the text, on either path, has_newline is set
\* exactly when the raw text holds a newline character or an HTML line
\* break, wherever it stands, also where the newline does not reach
\* clean_text.
C15_HasNewlineIffLineBreak ==
    cell.pc \in {"scan", "done"} =>
        (cell.has_newline <=> (Contains(cell.text, <<"\n">>) \/ HoldsLineBreak(cell.text)))

\* a line break in the url of a link: has_newline is set, clean_text has no
\* newline
C15_Witness ==
    /\ cell.pc = "done"
    /\ cell.text = LinkToLineBreak
    /\ cell.has_newline
    /\ cell.clean_text = <<"a">>

\* C16: no segment with an empty text is emitted: every segment of a
\* parsed cell, and every segment a call of _parse_segments holds, has a
\* non-empty text.
C16_NoEmptySegment ==
    /\ \A k \in 1..Len(cell.segments) : cell.segments[k].text # <<>>
    /\ \A n \in 1..Len(cell.stack) :
          \A k \in 1..Len(cell.stack[n].segments) : cell.stack[n].segments[k].text # <<>>

\* C17: the segment list of a parsed cell is empty only if the raw text is
\* empty.
C17_EmptyOnlyIfEmptyText ==
    (cell.pc = "done" /\ cell.text # <<>>) => cell.segments # <<>>

----------------------------------------------------------------------------
(* Claims about the hotkey gate (checked under SpecGate).                  *)

\* the workers that are inside the callback
InCallback == {w \in 1..Len(gate.workers) : gate.workers[w].pc = "callback"}

\* C18: at most one worker executes the callback at any time, whatever the
\* interleaving of the calls of the gate and the steps of the workers.
C18_OneRunAtATime == Cardinality(InCallback) <= 1

\* the gate with its threads scheduled fairly: a started thread gets to run,
\* the callback it runs comes to an end, and the finally clause is executed
SpecGateFair ==
    /\ InitGate /\ [][NextGate]_vars
    /\ WF_vars(WorkerSetRunning)
    /\ WF_vars(WorkerCallbackReturns \/ WorkerCallbackRaises)
    /\ WF_vars(WorkerFinally)

----------------------------------------------------------------------------
(* The table parser on one header row followed by every short text: the   *)
(* lines under the header are every candidate for a separator row.        *)

\* the characters of separator rows and of what is not one
TailAlphabet == {"|", "-", ":", " ", "\\", "\n"}

\* a one-column header row and the end of its line
HeaderLine == <<"|", "a", "|", "\n">>

InitSeparator ==
    /\ \E tail \in SeqsUpTo(TailAlphabet, MaxTailLen) : table = TableStart(HeaderLine \o tail)
    /\ split = SplitIdle
    /\ cell = CellIdle
    /\ gate = GateIdle

SpecSeparator == InitSeparator /\ [][NextTable]_vars

----------------------------------------------------------------------------
(* Further claims about the table parser (checked under SpecTable).        *)

\* the rows the claim describes for the lines ls: the first line matching
\* the separator pattern is consumed (seen tells that it was), every other
\* table line that keeps a cell without its frame is a row
RECURSIVE RowsWithOneSeparator(_, _)
RowsWithOneSeparator(ls, seen) ==
    IF ls = <<>> THEN <<>>
    ELSE IF IsSeparatorRow(Head(ls)) /\ ~seen THEN RowsWithOneSeparator(Tail(ls), TRUE)
    ELSE (IF IsTableLine(Head(ls)) /\ FrameStrip(split_table_cells(Head(ls)).cells) # <<>>
          THEN <<FrameStrip(split_table_cells(Head(ls)).cells)>> ELSE <<>>)
         \o RowsWithOneSeparator(Tail(ls), seen)

\* C19: at most one separator row is consumed: of the scanned lines that
\* match the separator pattern only the first is left out of the returned
\* rows, the others are returned as ordinary rows.
C19_OneSeparatorConsumed ==
    TableAccepted =>
        table.table_data = RowsWithOneSeparator(ScannedLines(RawLines(table.md_text)), FALSE)

\* s cut at every "|", escaped or not
RECURSIVE CutAtPipes(_)
CutAtPipes(s) ==
    IF Find(s, <<"|">>, 0) = -1 THEN <<s>>
    ELSE <<Slice(s, 0, Find(s, <<"|">>, 0))>> \o CutAtPipes(SliceFrom(s, Find(s, <<"|">>, 0) + 1))

\* one group: dashes and colons, at least one, with whitespace around them only
IsGroup(part) ==
    Strip(part) # <<>> /\ \A k \in 1..Len(Strip(part)) : Strip(part)[k] \in {"-", ":"}

\* the parts of a line between its pipes, without the blank part before an
\* optional leading pipe and the blank part after an optional trailing pipe
WithoutLeadingPipe(parts) == IF Len(parts) > 1 /\ Strip(Head(parts)) = <<>> THEN Tail(parts) ELSE parts
WithoutTrailingPipe(parts) ==
    IF Len(parts) > 1 /\ Strip(parts[Len(parts)]) = <<>> THEN SubSeq(parts, 1, Len(parts) - 1) ELSE parts
Groups(line) == WithoutTrailingPipe(WithoutLeadingPipe(CutAtPipes(line)))

\* optional leading pipe, n or more groups separated by pipes, optional trailing pipe
HasGroups(line, n) == Len(Groups(line)) >= n /\ \A k \in 1..Len(Groups(line)) : IsGroup(Groups(line)[k])

\* the stripped lines of the text being parsed
StrippedLines == {Strip(table.lines[k]) : k \in 1..Len(table.lines)}

\* C20 as stated: a stripped line is a separator row exactly when it has
\* one or more groups, so that |---| is one and a one-column table is
\* accepted with it.
C20_OneOrMoreGroups ==
    \A line \in StrippedLines : IsTableLine(line) => (IsSeparatorRow(line) <=> HasGroups(line, 1))

\* C20, amended: a stripped line is a separator row exactly when it has two
\* or more groups of - and : between an optional leading and an optional
\* trailing pipe, with whitespace around the groups only; a table is
\* accepted only if one of its lines is such a row.
C20_TwoOrMoreGroups ==
    /\ \A line \in StrippedLines : IsSeparatorRow(line) <=> HasGroups(line, 2)
    /\ TableAccepted => \E line \in StrippedLines : HasGroups(line, 2)

\* the header with a separator row of two groups under it was accepted
C20_Witness ==
    /\ TableAccepted
    /\ table.lines = <<<<"|", "a", "|">>, <<"|", "-", "|", ":", "|">>>>

\* C21: in the loop a blank line only moves the scan to the next line; a
\* non-blank line without a pipe met after a separator row ends the loop
\* with the rows collected so far, which are the rows returned, whatever
\* the lines after it; the same line met before any separator row returns
\* None at once, whatever the lines after it.
C21_BlankSkippedNonTableLineEnds ==
    [][ /\ TableLooping =>
             /\ CurrentLine(table) = <<>> =>
                   table' = [table EXCEPT !.i = table.i + 1]
             /\ (IsNonTableLine(CurrentLine(table)) /\ table.separator_found) =>
                   table' = [table EXCEPT !.pc = "after"]
             /\ (IsNonTableLine(CurrentLine(table)) /\ ~table.separator_found) =>
                   /\ table'.pc = "done"
                   /\ table'.returned = "None"
        /\ table.pc = "after" =>
             /\ table'.pc = "done"
             /\ table'.table_data = table.table_data
             /\ table'.i = table.i
             /\ table'.returned = (IF table.table_data = <<>> THEN "None" ELSE "table") ]_vars

\* the scan went over a blank line while collecting rows and was then ended
\* by a line without a pipe
C21_Witness ==
    /\ table.pc = "after"
    /\ \E k \in 1..table.i : Strip(table.lines[k]) = <<>>
    /\ table.table_data # <<>>

----------------------------------------------------------------------------
(* Claims about the frame of a row (checked under SpecSeparator).          *)

\* line between two pipes
Framed(line) == <<"|">> \o line \o <<"|">>

\* the rows a line gives when the loop reaches it
RowsOfLine(line) ==
    IF IsDataLine(line) THEN <<FrameStrip(split_table_cells(line).cells)>> ELSE <<>>

\* an unframed line c1|...|cn whose first and last cells are not empty
IsUnframed(line) ==
    /\ line # <<>>
    /\ Head(split_table_cells(line).cells) # <<>>
    /\ split_table_cells(line).cells[Len(split_table_cells(line).cells)] # <<>>

\* what the loop does with the cells of a data line: one empty cell less
\* at each end that has one, the other cells kept in order, the row appended
\* unless nothing is left
FrameDropped ==
    (TableLooping /\ IsTableLine(CurrentLine(table)) /\ ~IsSeparatorRow(CurrentLine(table))) =>
        LET cells == split_table_cells(CurrentLine(table)).cells
            n == Len(cells)
            lead == IF n > 0 /\ cells[1] = <<>> THEN 1 ELSE 0
            trail == IF n - lead > 0 /\ cells[n] = <<>> THEN 1 ELSE 0
            row == SubSeq(cells, 1 + lead, n - trail)
        IN  /\ table'.i = table.i + 1 /\ table'.pc = "loop"
            /\ table'.separator_found = table.separator_found
            /\ table'.table_data =
                  IF row = <<>> THEN table.table_data ELSE Append(table.table_data, row)

\* C22 as stated: the frame is dropped as described, and a framed line
\* and the unframed line of the same cells (a line with a pipe) give the
\* same row whenever the first and the last cell are not empty.
C22_FramedEqualsUnframed ==
    [][ /\ FrameDropped
        /\ \A line \in StrippedLines' :
              (IsUnframed(line) /\ IsTableLine(line)) =>
                  RowsOfLine(Framed(line)) = RowsOfLine(line) ]_vars

\* C22, amended: the frame is dropped as described, and a framed line and
\* the unframed line of the same cells (a line with a pipe) give the same
\* row whenever the first and the last cell are not empty and the last
\* cell does not end with a backslash.
C22_FramedEqualsUnframedNoBackslash ==
    [][ /\ FrameDropped
        /\ \A line \in StrippedLines' :
              (IsUnframed(line) /\ IsTableLine(line) /\ line[Len(line)] # "\\") =>
                  RowsOfLine(Framed(line)) = RowsOfLine(line) ]_vars

\* a row of two cells was appended for an unframed line whose first cell
\* holds an escaped pipe, and a row of one empty cell for the line ||
C22_Witness ==
    /\ table.pc = "done"
    /\ table.lines = <<<<"|", "a", "|">>, <<"\\", "|", "-", "|", ":">>>>
    /\ table.table_data = <<<<<<"a">>>>, <<<<"|", "-">>, <<":">>>>>>

----------------------------------------------------------------------------
(* Further claims about CellFormat.parse (checked under SpecCell).         *)

\* the call f is at a ** or __ (d twice) that opens nothing: bold is not
\* active, no later occurrence of the delimiter, no bold-italic span opens
UnmatchedPair(f, d) ==
    /\ f.i < Len(f.text)
    /\ MatchAt(f.text, f.i, <<d, d>>) /\ ~f.bold
    /\ ~DoubleOpens(f, d) /\ ~TripleOpens(f, d)

\* C23 as stated: where the text scanned starts with ** or __ and has no
\* later occurrence of that delimiter, both characters of the delimiter
\* are in clean_text and no segment is bold.
C23_BothCharactersLiteral ==
    (cell.pc = "done" /\ ~cell.is_code_block) =>
        \A d \in {"*", "_"} :
            UnmatchedPair(Frame(cell.scanned, FALSE, FALSE, FALSE, 0), d) =>
                /\ Slice(cell.clean_text, 0, 2) = <<d, d>>
                /\ \A k \in 1..Len(cell.segments) : ~cell.segments[k].bold

\* C23, amended: at a ** or __ met while bold is not active, with no later
\* occurrence of the delimiter, the first character of the delimiter is
\* appended to the pending characters, no call is made (no bold is opened)
\* and the scan moves on by one; the second character is scanned next, and
\* it opens an italic span exactly when a later single occurrence of it
\* closes one, else it is literal too.  **a gives the plain segment **a,
\* **a* gives the plain segment * and the italic segment a.
C23_UnmatchedBoldFirstCharLiteral ==
    [][ cell.pc = "scan" =>
          LET n == Len(cell.stack)
              f == Top(cell.stack)
          IN  /\ \A d \in {"*", "_"} :
                    UnmatchedPair(f, d) =>
                        /\ cell.rule = (IF d = "*" THEN "bold_star_unmatched"
                                        ELSE "bold_underscore_unmatched")
                        /\ Len(cell'.stack) = n
                        /\ cell'.stack[n] = [f EXCEPT !.current_text = Append(f.current_text, d),
                                                      !.i = f.i + 1]
                        /\ cell'.rule = (IF d = "*" THEN "italic_star" ELSE "italic_underscore")
                              <=> /\ ~MatchAt(f.text, f.i + 1, <<d, d>>)
                                  /\ \E e \in (f.i + 2)..(Len(f.text) - 1) :
                                        At(f.text, e) = d /\ ~MatchAt(f.text, e, <<d, d>>)
                        /\ cell'.rule \in {"italic_star", "italic_underscore",
                                           "italic_star_unmatched", "italic_underscore_unmatched",
                                           "bold_star_unmatched", "bold_underscore_unmatched"}
              /\ (cell'.pc = "done" /\ cell'.text = <<"*", "*", "a">>) =>
                    cell'.segments = <<PlainSegment(<<"*", "*", "a">>)>>
              /\ (cell'.pc = "done" /\ cell'.text = <<"*", "*", "a", "*">>) =>
                    cell'.segments = << PlainSegment(<<"*">>),
                                        TextSegment(<<"a">>, FALSE, TRUE, FALSE, FALSE, NoUrl) >> ]_vars

\* parse has returned for **a*: one star kept, a italic
C23_Witness ==
    /\ cell.pc = "done"
    /\ cell.text = <<"*", "*", "a", "*">>
    /\ cell.clean_text = <<"*", "a">>
    /\ cell.segments[2].italic

\* the text ~~**a** _b_~~ : a bold span and an italic span inside a
\* strikethrough span
SpansInStrike == <<"~", "~", "*", "*", "a", "*", "*", " ", "_", "b", "_", "~", "~">>

\* segment seg has every flag of the call f
CarriesStyle(seg, f) ==
    /\ f.bold => seg.bold
    /\ f.italic => seg.italic
    /\ f.strikethrough => seg.strikethrough

\* every segment held by a call on the stack has the flags of that call,
\* unless it is a code segment, which has none
SegmentsCarryStyle(stack) ==
    \A k \in 1..Len(stack) : \A j \in 1..Len(stack[k].segments) :
        IF stack[k].segments[j].is_code
        THEN /\ ~stack[k].segments[j].bold /\ ~stack[k].segments[j].italic
             /\ ~stack[k].segments[j].strikethrough
        ELSE CarriesStyle(stack[k].segments[j], stack[k])

\* C24: the call made for the content of a span has every flag of its
\* caller and the flag (or the two flags) of the span; every non-code
\* segment a call _parse_segments(text, b, i, s) holds or returns has
\* bold >= b, italic >= i and strikethrough >= s; code segments have no
\* flag.
C24_AmbientStyleInherited ==
    [][ cell.pc = "scan" =>
          LET n == Len(cell.stack)
              f == Top(cell.stack)
              g == cell'.stack[n + 1]
          IN  /\ SegmentsCarryStyle(cell.stack) /\ SegmentsCarryStyle(cell'.stack)
              /\ Len(cell'.stack) = n + 1 =>
                    /\ CarriesStyle(g, f)
                    /\ cell.rule = "strike" => g.strikethrough
                    /\ cell.rule \in {"bold_star", "bold_underscore"} => g.bold
                    /\ cell.rule \in {"bold_italic_star", "bold_italic_underscore"} =>
                          g.bold /\ g.italic
                    /\ cell.rule \in {"italic_star", "italic_underscore"} => g.italic
                    /\ g.bold => (f.bold \/ cell.rule \in {"bold_star", "bold_underscore",
                                      "bold_italic_star", "bold_italic_underscore"})
                    /\ g.italic => (f.italic \/ cell.rule \in {"italic_star", "italic_underscore",
                                      "bold_italic_star", "bold_italic_underscore"})
                    /\ g.strikethrough => (f.strikethrough \/ cell.rule = "strike")
              /\ cell.rule = "return" =>
                    \A j \in 1..Len(Flushed(f)) :
                        Flushed(f)[j].is_code \/ CarriesStyle(Flushed(f)[j], f)
              /\ (cell'.pc = "done" /\ cell'.text = SpansInStrike) =>
                    cell'.segments =
                       << TextSegment(<<"a">>, TRUE, FALSE, TRUE, FALSE, NoUrl),
                          TextSegment(<<" ">>, FALSE, FALSE, TRUE, FALSE, NoUrl),
                          TextSegment(<<"b">>, FALSE, TRUE, TRUE, FALSE, NoUrl) >> ]_vars

\* inside the strikethrough span the bold span has returned its segment
\* and the italic span is being scanned
C24_Witness ==
    /\ cell.pc = "scan"
    /\ cell.text = SpansInStrike
    /\ Len(cell.stack) = 3
    /\ cell.stack[3].italic /\ cell.stack[3].strikethrough /\ ~cell.stack[3].bold
    /\ cell.stack[2].segments[1].bold /\ cell.stack[2].segments[1].strikethrough

\* C25: is_code_block is set exactly when the text holds a complete
\* <pre>...</pre> or <code>...</code> element, in any letter case; when it
\* is set clean_text holds none of the four tags; a text with an opening
\* tag and no closing tag goes through the inline parsing.
C25_CodeBlockIffCompleteElement ==
    cell.pc = "done" =>
        /\ cell.is_code_block <=>
              (HoldsElement(cell.text, PreOpen, PreClose) \/ HoldsElement(cell.text, CodeOpen, CodeClose))
        /\ cell.is_code_block =>
              \A tag \in {PreOpen, PreClose, CodeOpen, CodeClose} :
                  ~Contains(Lower(cell.clean_text), tag)

\* position pos of text lies between the two backticks of a code span met
\* when text is read from position from on (text without a backslash)
InCodeSpan(text, from, pos) ==
    /\ ~Contains(text, <<"\\">>)
    /\ Cardinality({p \in from..(pos - 1) : At(text, p) = Backtick}) % 2 = 1
    /\ \E q \in (pos + 1)..(Len(text) - 1) : At(text, q) = Backtick

\* the length of the opening delimiter of the span of rule r
OpenerLen(r) ==
    IF r \in {"bold_italic_star", "bold_italic_underscore"} THEN 3
    ELSE IF r \in {"strike", "bold_star", "bold_underscore"} THEN 2
    ELSE 1

\* C26: when a strikethrough, emphasis or link span opens, the closing
\* delimiter its search selects does not lie between the backticks of a
\* code span that follows the opening delimiter.
C26_ClosingNotInCodeSpan ==
    [][ (cell.pc = "scan" /\ Len(cell'.stack) = Len(cell.stack) + 1) =>
          LET f == Top(cell.stack)
              from == f.i + OpenerLen(cell.rule)
              end == from + Len(Top(cell'.stack).text)
          IN  /\ ~InCodeSpan(f.text, from, end)
              /\ cell.rule = "link" =>
                    ~InCodeSpan(f.text, from, cell'.stack[Len(cell.stack)].i - 1) ]_vars

\* two italic spans side by side: *a*_b_
TwoItalics == <<"*", "a", "*", "_", "b", "_">>

\* the combination of flags and url of a segment
StyleOf(seg) == <<seg.bold, seg.italic, seg.strikethrough, seg.is_code, seg.hyperlink_url>>

\* C27 as stated: in the segments of a parsed cell no two adjacent segments
\* have the same combination of bold, italic, strikethrough, is_code and
\* hyperlink_url.
C27_AdjacentSegmentsDiffer ==
    cell.pc = "done" =>
        \A k \in 1..(Len(cell.segments) - 1) :
            StyleOf(cell.segments[k]) # StyleOf(cell.segments[k + 1])

\* the rules that open a span: a call is made for its content
SpanRules ==
    {"strike", "bold_star", "bold_underscore", "bold_italic_star", "bold_italic_underscore",
     "italic_star", "italic_underscore", "link"}

\* C27, amended: a segment is a run of characters of one style that ends
\* only at the boundary of a span or at the end of the text.  A literal or
\* escaped character adds no segment to any call; the opening of a span
\* and a code span close the pending characters of the call as one segment
\* of its style (a code span adds its code segment); a return hands the
\* segments of the call and its pending characters to the caller.  Two
\* adjacent segments can have the same style: *a*_b_ gives two italic
\* segments.
C27_SegmentsEndAtSpanBoundaries ==
    [][ cell.pc = "scan" =>
          LET n == Len(cell.stack)
              f == Top(cell.stack)
          IN  /\ cell.rule \in LiteralRules \cup {"escape"} =>
                    /\ Len(cell'.stack) = n
                    /\ \A k \in 1..n : cell'.stack[k].segments = cell.stack[k].segments
                    /\ Len(cell'.stack[n].current_text) = Len(f.current_text) + 1
              /\ cell.rule \in SpanRules =>
                    /\ Len(cell'.stack) = n + 1
                    /\ cell'.stack[n].segments = Flushed(f)
                    /\ cell'.stack[n].current_text = <<>>
                    /\ \A k \in 1..(n - 1) : cell'.stack[k].segments = cell.stack[k].segments
              /\ cell.rule = "code" =>
                    /\ Len(cell'.stack) = n
                    /\ Len(cell'.stack[n].segments) = Len(Flushed(f)) + 1
                    /\ SubSeq(cell'.stack[n].segments, 1, Len(Flushed(f))) = Flushed(f)
                    /\ cell'.stack[n].segments[Len(Flushed(f)) + 1].is_code
              /\ cell.rule = "return" =>
                    /\ Len(cell'.stack[n - 1].segments) =
                          Len(cell.stack[n - 1].segments) + Len(Flushed(f))
                    /\ \A j \in 1..Len(Flushed(f)) :
                          cell'.stack[n - 1].segments[Len(cell.stack[n - 1].segments) + j].text
                             = Flushed(f)[j].text
              /\ cell.rule = "end" => cell'.segments = Flushed(f)
              /\ (cell'.pc = "done" /\ cell'.text = TwoItalics) =>
                    cell'.segments = << TextSegment(<<"a">>, FALSE, TRUE, FALSE, FALSE, NoUrl),
                                        TextSegment(<<"b">>, FALSE, TRUE, FALSE, FALSE, NoUrl) >> ]_vars

\* parse has returned two adjacent italic segments for *a*_b_
C27_Witness ==
    /\ cell.pc = "done"
    /\ cell.text = TwoItalics
    /\ Len(cell.segments) = 2
    /\ StyleOf(cell.segments[1]) = StyleOf(cell.segments[2])

----------------------------------------------------------------------------
(* Further claims about the hotkey gate (checked under SpecGate).          *)

\* C28: a call of the gate that reads the clock less than FIRE_DEBOUNCE_SEC
\* after last_fire returns at once: it starts no worker and changes neither
\* last_fire nor running; a call that reads it later records its time.
C28_DebouncedTriggerIgnored ==
    [][ (gate.hook.pc = "entered" /\ gate'.hook # gate.hook) =>
          IF gate.hook.now - gate.last_fire < FIRE_DEBOUNCE_SEC * TicksPerSec
          THEN /\ gate'.hook.pc = "idle"
               /\ gate'.last_fire = gate.last_fire
               /\ gate'.running = gate.running
               /\ gate'.workers = gate.workers
          ELSE /\ gate'.hook.pc = "fired"
               /\ gate'.last_fire = gate.hook.now ]_vars

\* a second press, one tick after the press that started the worker, has
\* returned: last_fire is the time of the first press, no second worker
C28_Witness ==
    /\ gate.calls = 2
    /\ gate.hook.pc = "idle"
    /\ Len(gate.workers) = 1 /\ gate.workers[1].pc = "started"
    /\ gate.clock = gate.last_fire + 1
    /\ gate.last_fire = DebounceTicks

\* s is t with characters removed: the characters of s are met in t in order
RECURSIVE IsSubsequence(_, _)
IsSubsequence(s, t) ==
    IF s = <<>> THEN TRUE
    ELSE IF t = <<>> THEN FALSE
    ELSE IF Head(s) = Head(t) THEN IsSubsequence(Tail(s), Tail(t))
    ELSE IsSubsequence(s, Tail(t))

NoWorkerActive == \A w \in 1..Len(gate.workers) : gate.workers[w].pc \in {"started", "done"}

\* what a step of worker w does to running
WorkerStepsRunning ==
    \A w \in 1..Len(gate.workers) :
        /\ (gate.workers[w].pc = "started" /\ gate'.workers[w].pc # "started") =>
              gate'.workers[w].pc = "callback" /\ gate'.running
        /\ (gate.workers[w].pc = "callback" /\ gate'.workers[w].pc # "callback") =>
              gate'.workers[w].pc = "finally" /\ gate'.running = gate.running
        /\ (gate.workers[w].pc = "finally" /\ gate'.workers[w].pc # "finally") =>
              gate'.workers[w].pc = "done" /\ ~gate'.running

\* C30: a worker sets running before the callback and resets it after the
\* callback has returned or raised; while no worker is between the two,
\* running is false, and a press outside the debounce window then starts a
\* worker; with threads that get to run and callbacks that end, running
\* never stays set.
C30_RunningIsReset ==
    /\ [](NoWorkerActive => ~gate.running)
    /\ [][ /\ WorkerStepsRunning
           /\ (gate.hook.pc = "fired" /\ gate'.hook # gate.hook /\ NoWorkerActive) =>
                 gate'.hook.pc = "passed"
           /\ (gate.hook.pc = "passed" /\ gate'.hook # gate.hook) =>
                 /\ Len(gate'.workers) = Len(gate.workers) + 1
                 /\ gate'.workers[Len(gate'.workers)].pc = "started" ]_vars
    /\ gate.running ~> ~gate.running

\* after a run whose callback raised, a later press has started a second
\* run, now in its callback
C30_Witness ==
    /\ Len(gate.workers) = 2
    /\ gate.workers[1].pc = "done" /\ gate.workers[1].raised
    /\ gate.workers[2].pc = "callback"
    /\ gate.running

====
